---------------------------- MODULE Spec2Model ----------------------------
(***************************************************************************)
(* Model of cmoyates/flee-ai-test: the spatial index (src/spatial.rs), the *)
(* collision resolver (src/collisions.rs) and the flee/wander steering     *)
(* controller (src/ai/flee.rs, and the older variant kept in src/main.rs). *)
(*                                                                         *)
(* Numbers.  The program computes in f32.  The model computes in exact     *)
(* integer arithmetic on fixed-point values: a coordinate is an integer    *)
(* number of length units, a point is a pair <<x, y>>, and every quotient  *)
(* the code floors or compares is floored or compared exactly (by cross    *)
(* multiplication), never rounded first.                                   *)
(***************************************************************************)
EXTENDS Integers, Sequences, FiniteSets, TLC

\* ------------------------------------------------------------------------
\* Bounds of the model (not program constants).
\* ------------------------------------------------------------------------
\* Grid scenario: edge and ray endpoints range over -MaxCoord..MaxCoord.
MaxCoord == 2

\* Grid scenario: number of edges_along_ray calls made on one grid.
MaxQueries == 1

\* Head-on scenario: number of frames simulated.
MaxFrames == 2

\* ------------------------------------------------------------------------
\* Arithmetic helpers.
\* ------------------------------------------------------------------------
Abs(x) == IF x < 0 THEN -x ELSE x

Max(a, b) == IF a >= b THEN a ELSE b

Min(a, b) == IF a <= b THEN a ELSE b

\* f32::signum: 1.0 for +0.0 and every positive number, -1.0 for negatives.
Signum(x) == IF x < 0 THEN -1 ELSE 1

\* floor(a / b) for b > 0 (f32 division followed by .floor()).
FloorDiv(a, b) == a \div b

\* ceil(a / b) for a >= 0, b > 0 (f32 division followed by .ceil()).
CeilDiv(a, b) == (a + b - 1) \div b

\* x <= sqrt(n), for 0 <= n < 2^31 (46340 = floor(sqrt(2^31 - 1))).
AtMostRoot(x, n) == x <= 46340 /\ x * x <= n

\* The largest lo + d * step, d in 0..14, that is at most sqrt(n).
SqrtDigit(n, lo, step) ==
    lo + step * (CHOOSE d \in 0..14 :
                    /\ AtMostRoot(lo + d * step, n)
                    /\ (d = 14 \/ ~AtMostRoot(lo + (d + 1) * step, n)))

\* floor(sqrt(n)) for 0 <= n < 2^31, digit by digit in base 15.
ISqrt(n) == SqrtDigit(n, SqrtDigit(n, SqrtDigit(n, SqrtDigit(n, 0, 3375), 225), 15), 1)

\* ceil(sqrt(n)), given r = floor(sqrt(n)).
CeilOfRoot(n, r) == IF r * r = n THEN r ELSE r + 1

\* ceil(sqrt(n)).
CeilSqrt(n) == CeilOfRoot(n, ISqrt(n))

\* ------------------------------------------------------------------------
\* Vec2.
\* ------------------------------------------------------------------------
VAdd(a, b) == <<a[1] + b[1], a[2] + b[2]>>

VSub(a, b) == <<a[1] - b[1], a[2] - b[2]>>

Dot(a, b) == a[1] * b[1] + a[2] * b[2]

LengthSquared(a) == Dot(a, a)

\* utils.rs / collisions.rs: cross_product.
cross_product(a, b) == a[1] * b[2] - a[2] * b[1]

\* Faulty variant of BothInUnit: t and u strictly inside (0, 1).
BothInUnit_Open(tn, un, r_cross_s) ==
    IF r_cross_s = 0 THEN FALSE
    ELSE IF r_cross_s > 0
         THEN tn > 0 /\ tn < r_cross_s /\ un > 0 /\ un < r_cross_s
         ELSE tn < 0 /\ tn > r_cross_s /\ un < 0 /\ un > r_cross_s

\* line_intersect(...).is_some(): t = cross(a_to_c, line_2) / r_cross_s and
\* u = cross(a_to_c, line_1) / r_cross_s both lie in [0, 1].  With
\* r_cross_s = 0 the f32 quotients are NaN or +-Inf and every comparison
\* chain fails, so the result is None.
\* tn / r_cross_s and un / r_cross_s both in [0, 1].
BothInUnit(tn, un, r_cross_s) ==
    IF r_cross_s = 0 THEN FALSE
    ELSE IF r_cross_s > 0
         THEN tn >= 0 /\ tn <= r_cross_s /\ un >= 0 /\ un <= r_cross_s
         ELSE tn <= 0 /\ tn >= r_cross_s /\ un <= 0 /\ un >= r_cross_s

LineCross(line_1, line_2, a_to_c) ==
    BothInUnit(cross_product(a_to_c, line_2), cross_product(a_to_c, line_1),
               cross_product(line_1, line_2))

line_intersect(line_1_start, line_1_end, line_2_start, line_2_end) ==
    LineCross(VSub(line_1_end, line_1_start), VSub(line_2_end, line_2_start),
              VSub(line_2_start, line_1_start))

\* ------------------------------------------------------------------------
\* Sequence helpers.
\* ------------------------------------------------------------------------
Range(s) == {s[i] : i \in 1..Len(s)}

\* The element of a singleton set.  In {F(v) : v \in {e}} the value of e is
\* computed before F is applied to it, as a `let` binding of the code is.
TheOne(S) == CHOOSE x \in S : TRUE

\* ------------------------------------------------------------------------
\* Spatial index (src/spatial.rs).
\* ------------------------------------------------------------------------
\* The edges of a polygon list, in the order SpatialGrid::new visits them:
\* polygon by polygon, (points[i-1], points[i]) for i in 1..len.
PolygonEdges(polygon) ==
    [i \in 1..(Len(polygon.points) - 1) |->
        [start |-> polygon.points[i], end |-> polygon.points[i + 1]]]

RECURSIVE AllEdges(_)
AllEdges(polys) ==
    IF polys = <<>> THEN <<>>
    ELSE PolygonEdges(Head(polys)) \o AllEdges(Tail(polys))

\* (floor(x / cell_size), floor(y / cell_size)) of the i-th of `steps`
\* samples of the segment: x = start.x + dx * (i / steps).
SampleCell(start, end, cell_size, i, steps) ==
    LET dx == end[1] - start[1]
        dy == end[2] - start[2]
    IN  IF steps > 0
        THEN <<FloorDiv(start[1] * steps + dx * i, steps * cell_size),
               FloorDiv(start[2] * steps + dy * i, steps * cell_size)>>
        ELSE <<FloorDiv(start[1], cell_size), FloorDiv(start[2], cell_size)>>

\* steps = (dx.abs().max(dy.abs()) / cell_size).ceil() as i32 + 1
EdgeSteps(start, end, cell_size) ==
    CeilDiv(Max(Abs(end[1] - start[1]), Abs(end[2] - start[2])), cell_size) + 1

\* SpatialGrid::cells_for_edge: the set of sampled cells (a HashSet).
EdgeSamples(start, end, cell_size, steps) ==
    {SampleCell(start, end, cell_size, i, steps) : i \in 0..steps}

cells_for_edge(start, end, cell_size) ==
    {<<FloorDiv(start[1], cell_size), FloorDiv(start[2], cell_size)>>,
     <<FloorDiv(end[1], cell_size), FloorDiv(end[2], cell_size)>>}
    \cup EdgeSamples(start, end, cell_size, EdgeSteps(start, end, cell_size))

\* steps = (length / cell_size).ceil() as i32 + 1, length = sqrt(dx^2 + dy^2)
RaySteps(start, end, cell_size) ==
    CeilDiv(CeilSqrt(LengthSquared(VSub(end, start))), cell_size) + 1

\* The p-th smallest element of a finite set of integers.
NthOf(K, p) == CHOOSE k \in K : Cardinality({j \in K : j <= k}) = p

\* The sequence without the entries that occurred before (the `seen`
\* HashSet of the code): first occurrences, in order.
KeptPlaces(s) == {k \in 1..Len(s) : \A j \in 1..(k - 1) : s[j] # s[k]}

Kept(s, K) == [p \in 1..Cardinality(K) |-> s[NthOf(K, p)]]

FirstOccurrences(s) == TheOne({Kept(s, K) : K \in {KeptPlaces(s)}})

\* The samples i = 0..steps of the walk of cells_for_ray.
RaySamples(start, end, cell_size, steps) ==
    [i \in 1..(steps + 1) |-> SampleCell(start, end, cell_size, i - 1, steps)]

\* SpatialGrid::cells_for_ray: the sampled cells in walk order, no repeats.
cells_for_ray(start, end, cell_size) ==
    TheOne({FirstOccurrences(samples) :
            samples \in {<<>> \o RaySamples(start, end, cell_size,
                                            RaySteps(start, end, cell_size))}})

\* SpatialGrid::new: bucket of a cell = the edges whose cells_for_edge
\* holds the cell, in insertion order.  A cell without a bucket maps to <<>>.
RECURSIVE FilterEdges(_, _, _)
FilterEdges(edges, cell, cell_size) ==
    IF edges = <<>> THEN <<>>
    ELSE (IF cell \in cells_for_edge(Head(edges).start, Head(edges).end, cell_size)
          THEN <<Head(edges)>> ELSE <<>>)
         \o FilterEdges(Tail(edges), cell, cell_size)

GridCells(polys, cell_size) ==
    UNION {cells_for_edge(e.start, e.end, cell_size) : e \in Range(AllEdges(polys))}

SpatialGrid_new(polys, cell_size) ==
    [cell_size |-> cell_size,
     grid |-> [c \in GridCells(polys, cell_size) |->
                  FilterEdges(AllEdges(polys), c, cell_size)]]

\* The dedup key of edges_along_ray: endpoints * 1000 truncated to i32.
EdgeKey(edge) ==
    <<edge.start[1] * 1000, edge.start[2] * 1000,
      edge.end[1] * 1000, edge.end[2] * 1000>>

\* The bucket of a cell (grid.get(&cell)), <<>> for a cell without one.
Bucket(sg, cell) == IF cell \in DOMAIN sg.grid THEN sg.grid[cell] ELSE <<>>

\* The (cell, edge) pairs the two loops of edges_along_ray visit: slot
\* <<c, k>> is the k-th edge of the bucket of the c-th cell.
Slots(sg, cells) ==
    UNION {{<<c, k>> : k \in 1..Len(Bucket(sg, cells[c]))} : c \in 1..Len(cells)}

\* The loops visit slot a before slot b.
Before(a, b) == a[1] < b[1] \/ (a[1] = b[1] /\ a[2] < b[2])

EdgeAt(sg, cells, slot) == Bucket(sg, cells[slot[1]])[slot[2]]

\* The slots whose edge is pushed: no earlier slot has the same key.
PushedSlots(sg, cells, slots) ==
    {x \in slots :
        \A y \in slots :
            Before(y, x) => EdgeKey(EdgeAt(sg, cells, y)) # EdgeKey(EdgeAt(sg, cells, x))}

\* The pushed edges in the order they were pushed.
EdgesOf(sg, cells, pushed) ==
    [p \in 1..Cardinality(pushed) |->
        EdgeAt(sg, cells,
               CHOOSE x \in pushed :
                   Cardinality({y \in pushed : Before(y, x)}) = p - 1)]

CollectEdges(sg, cells) ==
    TheOne({EdgesOf(sg, cells, pushed) :
            pushed \in {PushedSlots(sg, cells, Slots(sg, cells))}})

\* SpatialGrid::edges_along_ray.
edges_along_ray(sg, start, end) ==
    TheOne({CollectEdges(sg, cells) :
            cells \in {cells_for_ray(start, end, sg.cell_size)}})


\* ------------------------------------------------------------------------
\* Fixed point.  A length is an integer number of units, Unit units to the
\* pixel.  A direction (a normalized vector) carries components times
\* DirScale.  Quotients that the code leaves as f32 fractions are rounded to
\* the nearest unit.
\* ------------------------------------------------------------------------
Unit == 10

DirScale == 1000

\* a / b rounded to the nearest integer (b > 0).
RoundDiv(a, b) == (2 * a + b) \div (2 * b)

\* 100 * sqrt(n): exact when n is a perfect square.
Sqrt100(n) == IF n <= 214748 THEN ISqrt(n * 10000) ELSE 100 * ISqrt(n)

\* Vec2::normalize_or_zero, result scaled by DirScale.  (Vec2::normalize of
\* a non-zero vector is the same value.)
ScaleToUnit(v, len100) ==
    <<RoundDiv(v[1] * 100 * DirScale, len100),
      RoundDiv(v[2] * 100 * DirScale, len100)>>

normalize_or_zero(v) ==
    IF v = <<0, 0>> THEN <<0, 0>>
    ELSE ScaleToUnit(v, Sqrt100(LengthSquared(v)))

\* ------------------------------------------------------------------------
\* Collision resolver (src/collisions.rs).
\* ------------------------------------------------------------------------
\* The end of the parity ray: position + Vec2::new(2.0, 1.0) * 10000.0.
RayEnd(pos) == VAdd(pos, <<2 * 10000 * Unit, 1 * 10000 * Unit>>)

\* The touching threshold 0.5 added to the radius.
TouchMargin == Unit \div 2

\* side_of_line_detection: the sign of the determinant.
side_of_line_detection(line_start, line_end, point) ==
    Signum((line_end[1] - line_start[1]) * (point[2] - line_start[2])
           - (line_end[2] - line_start[2]) * (point[1] - line_start[1]))

\* projection_point = line_vec_normalized * dot + start.
ProjectAlong(start, line_vec_normalized, dot) ==
    VAdd(<<RoundDiv(line_vec_normalized[1] * dot, DirScale),
           RoundDiv(line_vec_normalized[2] * dot, DirScale)>>, start)

ProjectionPoint(start, point_vec, line_vec_normalized) ==
    ProjectAlong(start, line_vec_normalized,
                 RoundDiv(Dot(point_vec, line_vec_normalized), DirScale))

\* The three returns of find_projection.  In the two clamped branches the
\* code adds radius * 2.0 (pixels) to the squared distance: 2 * radius * Unit
\* in squared units.
ProjectionCase(start, end, point, radius, projection_point) ==
    IF LengthSquared(VSub(end, projection_point)) > LengthSquared(VSub(end, start))
    THEN [dist_sq |-> LengthSquared(VSub(point, start)) + radius * 2 * Unit,
          projection |-> start]
    ELSE IF LengthSquared(VSub(projection_point, start))
                > LengthSquared(VSub(end, start))
    THEN [dist_sq |-> LengthSquared(VSub(point, end)) + radius * 2 * Unit,
          projection |-> end]
    ELSE [dist_sq |-> LengthSquared(VSub(point, projection_point)),
          projection |-> projection_point]

\* find_projection: (distance squared, projection point).
find_projection(start, end, point, radius) ==
    ProjectionCase(start, end, point, radius,
                   ProjectionPoint(start, VSub(point, start),
                                   normalize_or_zero(VSub(end, start))))

ScaleByDepth(dir, depth100) ==
    <<RoundDiv(dir[1] * depth100, 100 * DirScale),
      RoundDiv(dir[2] * depth100, 100 * DirScale)>>

\* Faulty variant of PushOut: the depth taken from the squared distance (the sqrt
\* forgotten).
PushOut_NoSqrt(pos, projection, radius, dist_sq) ==
    ScaleByDepth(normalize_or_zero(VSub(pos, projection)),
                 radius * 100 - dist_sq * 100)

\* delta = (pos - projection).normalize_or_zero() * (radius - sqrt(dist_sq))
PushOut(pos, projection, radius, dist_sq) ==
    ScaleByDepth(normalize_or_zero(VSub(pos, projection)),
                 radius * 100 - Sqrt100(dist_sq))

\* Per axis, keep the correction of larger magnitude.
LargerPerAxis(adjustment, delta) ==
    <<IF Abs(delta[1]) > Abs(adjustment[1]) THEN delta[1] ELSE adjustment[1],
      IF Abs(delta[2]) > Abs(adjustment[2]) THEN delta[2] ELSE adjustment[2]>>

\* The part of the edge loop body after the side test, for an eligible
\* edge: fp = find_projection(..), acc = [counter, colliding, adjustment,
\* new_normal] with the counter already advanced.
EdgeContact(acc, fp, pos, radius) ==
    [counter |-> acc.counter,
     colliding |-> acc.colliding \/ fp.dist_sq <= radius * radius,
     new_normal |->
         IF fp.dist_sq <= (radius + TouchMargin) * (radius + TouchMargin)
         THEN VSub(acc.new_normal, normalize_or_zero(VSub(pos, fp.projection)))
         ELSE acc.new_normal,
     adjustment |->
         IF fp.dist_sq <= radius * radius
         THEN LargerPerAxis(acc.adjustment,
                            PushOut(pos, fp.projection, radius, fp.dist_sq))
         ELSE acc.adjustment]

\* The edge loop body for the edge (start, end).
EdgeBody(acc, start, end, collision_side, pos, phys) ==
    IF side_of_line_detection(start, end, phys.prev_position) # collision_side
    THEN acc
    ELSE EdgeContact(acc, find_projection(start, end, pos, phys.radius),
                     pos, phys.radius)

\* One pass of the inner loop of s_collision (one edge of one polygon):
\* the parity ray test, then the body.
EdgeStep(acc, polygon, line_index, pos, phys) ==
    EdgeBody([acc EXCEPT !.counter =
                 IF line_intersect(polygon.points[line_index],
                                   polygon.points[line_index + 1],
                                   pos, RayEnd(pos))
                 THEN @ + 1 ELSE @],
             polygon.points[line_index], polygon.points[line_index + 1],
             polygon.collision_side, pos, phys)

RECURSIVE EdgeLoop(_, _, _, _, _)
EdgeLoop(acc, polygon, line_index, pos, phys) ==
    IF line_index > Len(polygon.points) - 1 THEN acc
    ELSE TheOne({EdgeLoop(next, polygon, line_index + 1, pos, phys) :
                 next \in {EdgeStep(acc, polygon, line_index, pos, phys)}})

\* One pass of the outer loop (one polygon).  st = [pos, adjustment,
\* new_normal]; the tunneling guard puts the entity back at prev_position.
PolygonEnd(st, acc, phys) ==
    [pos |-> IF acc.colliding /\ acc.counter % 2 = 1
             THEN phys.prev_position ELSE st.pos,
     adjustment |-> acc.adjustment,
     new_normal |-> acc.new_normal]

PolygonStep(st, polygon, phys) ==
    PolygonEnd(st,
               EdgeLoop([counter |-> 0, colliding |-> FALSE,
                         adjustment |-> st.adjustment,
                         new_normal |-> st.new_normal],
                        polygon, 1, st.pos, phys),
               phys)

RECURSIVE PolygonLoop(_, _, _)
PolygonLoop(st, polys, phys) ==
    IF polys = <<>> THEN st
    ELSE TheOne({PolygonLoop(next, Tail(polys), phys) :
                 next \in {PolygonStep(st, Head(polys), phys)}})

\* The velocity left after `velocity -= velocity.dot(new_normal) * new_normal`
\* (new_normal is the accumulated, not the normalized, normal).
RemoveAlong(velocity, new_normal, d) ==
    <<velocity[1] - RoundDiv(d * new_normal[1], DirScale * DirScale),
      velocity[2] - RoundDiv(d * new_normal[2], DirScale * DirScale)>>

SlideVelocity(velocity, new_normal) ==
    RemoveAlong(velocity, new_normal, Dot(velocity, new_normal))

\* The body of s_collision for one entity e = [pos, phys].
\* The tail of s_collision for one entity, st = [pos, adjustment,
\* new_normal] as the polygon loop left them.
CollideEnd(e, st) ==
    [pos |-> VAdd(st.pos, st.adjustment),
     phys |-> [e.phys EXCEPT
                 !.normal = normalize_or_zero(st.new_normal),
                 !.velocity = SlideVelocity(e.phys.velocity, st.new_normal)]]

CollideEntity(e, polys) ==
    CollideEnd(e, PolygonLoop([pos |-> e.pos, adjustment |-> <<0, 0>>,
                               new_normal |-> <<0, 0>>], polys, e.phys))

\* ------------------------------------------------------------------------
\* Steering controller (src/ai/flee.rs): numbers.
\*   angles    whole steps of 1/AngleSteps of a turn (f32 radians in the code)
\*   blend     hundredths (0..100 for 0.0..1.0)
\*   seconds   hundredths of a second
\*   speeds    units per frame
\* ------------------------------------------------------------------------
AngleSteps == 32

\* cos of 0, 1, .., AngleSteps / 4 steps, scaled by DirScale.
QuarterCos == <<1000, 981, 924, 831, 707, 556, 383, 195, 0>>

CosOfStep(k) ==
    IF k <= 8 THEN QuarterCos[k + 1]
    ELSE IF k <= 16 THEN -QuarterCos[17 - k]
    ELSE IF k <= 24 THEN -QuarterCos[k - 15]
    ELSE QuarterCos[33 - k]

\* Vec2::from_angle(angle) = (cos angle, sin angle), scaled by DirScale.
from_angle(angle) ==
    <<CosOfStep(angle % AngleSteps), CosOfStep((angle - 8) % AngleSteps)>>

\* f32::atan2(v.y, v.x) to the nearest step, in -15..16.
atan2(v) ==
    CHOOSE k \in (1 - AngleSteps \div 2)..(AngleSteps \div 2) :
        \A j \in (1 - AngleSteps \div 2)..(AngleSteps \div 2) :
            Dot(from_angle(k), v) >= Dot(from_angle(j), v)

\* The 16 direction vectors, 22.5 degrees (2 steps) apart.
get_direction_vectors == [i \in 1..16 |-> from_angle(2 * (i - 1))]

DIR_INDICES == <<1, 2, 3, 4, 5, 6, 7, 8, 9, 10, 11, 12, 13, 14, 15, 16>>

\* config.rs, lengths in pixels and speeds in pixels per frame.
WANDER_MAX_SPEED == 3

FLEE_MAX_SPEED == 5

AI_MAX_DETECTION_DISTANCE == 400

AI_MIN_FLEE_DISTANCE == 200

AI_RAYCAST_DISTANCE == 100

AI_WANDER_RADIUS == 50

LOS_CACHE_THRESHOLD == 5

\* STEERING_SCALE = 0.1 = 1 / SteeringDivisor.
SteeringDivisor == 10

\* AI_WANDER_DISPLACE_RANGE = 0.3 rad: 1.53 steps, so the random increment
\* of the wander angle is -1, 0 or 1 step.
WanderDisplacements == {-1, 0, 1}

\* delta = time.delta_secs().min(0.1), in hundredths of a second.
DeltaCap == 10

\* utils::lerp(a, b, t) = a + (b - a) * t with t in hundredths.
lerp(a, b, t) == a + RoundDiv((b - a) * t, 100)

\* Vec2::lerp(rhs, s).
VLerp(a, b, t) == <<lerp(a[1], b[1], t), lerp(a[2], b[2], t)>>

\* dir * length for a DirScale-scaled dir and a length in units.
Scaled(dir, length) ==
    <<RoundDiv(dir[1] * length, DirScale), RoundDiv(dir[2] * length, DirScale)>>

VNeg(a) == <<-a[1], -a[2]>>

\* ------------------------------------------------------------------------
\* Steering controller: line of sight and its cache.
\* ------------------------------------------------------------------------
\* SystemCache::default().  Option<bool> is <<>> (None) or <<b>> (Some(b)).
SystemCache ==
    [last_player_pos |-> <<0, 0>>, last_ai_pos |-> <<0, 0>>,
     cached_los_result |-> <<>>, frame_count |-> 0]

ThresholdSquared == (LOS_CACHE_THRESHOLD * Unit) * (LOS_CACHE_THRESHOLD * Unit)

\* player_moved, computed once per call of the system (lines 123-124).
PlayerMoved(player, c) ==
    LengthSquared(VSub(player, c.last_player_pos)) > ThresholdSquared

\* Faulty variant of UseCached: the player's movement is not looked at.
UseCached_IgnorePlayer(player_moved, ai_pos, c) ==
    /\ LengthSquared(VSub(ai_pos, c.last_ai_pos)) < ThresholdSquared
    /\ c.cached_los_result # <<>>

\* The condition of lines 135-138.
UseCached(player_moved, ai_pos, c) ==
    /\ ~player_moved
    /\ LengthSquared(VSub(ai_pos, c.last_ai_pos)) < ThresholdSquared
    /\ c.cached_los_result # <<>>

\* Some edge of `edges` intersects the segment (a, b).
AnyIntersect(edges, a, b) ==
    \E k \in 1..Len(edges) : line_intersect(edges[k].start, edges[k].end, a, b)

\* The spatial raycast of lines 143-152.
Raycast(sg, ai_pos, player) ==
    ~AnyIntersect(edges_along_ray(sg, ai_pos, player), ai_pos, player)

\* Lines 154-158: the cache after a raycast that gave can_see.
UpdateCache(c, player, ai_pos, can_see) ==
    [c EXCEPT !.last_player_pos = player, !.last_ai_pos = ai_pos,
              !.cached_los_result = <<can_see>>]

RaycastAndCache(c, player, ai_pos, can_see) ==
    [can_see_player |-> can_see, reused |-> FALSE,
     cache |-> UpdateCache(c, player, ai_pos, can_see)]

\* Lines 133-160: can_see_player, whether it came from the cache, and the
\* cache afterwards.
LineOfSight(sg, c, player_moved, player, ai_pos) ==
    IF UseCached(player_moved, ai_pos, c)
    THEN [can_see_player |-> c.cached_los_result[1], reused |-> TRUE, cache |-> c]
    ELSE RaycastAndCache(c, player, ai_pos, Raycast(sg, ai_pos, player))

\* ------------------------------------------------------------------------
\* Steering controller: blend.
\* ------------------------------------------------------------------------
Clamp(x, lo, hi) == IF x < lo THEN lo ELSE IF x > hi THEN hi ELSE x

\* Faulty variant of HiddenBlend: the sum is not clamped.
HiddenBlend_NoMin(blend, dt) == blend + Min(dt, DeltaCap)

\* Faulty variant of HiddenBlend: half the rate.
HiddenBlend_HalfRate(blend, dt) == Min(blend + Min(dt, DeltaCap) \div 2, 100)

\* Faulty variant of HiddenBlend: the elapsed time is not capped.
HiddenBlend_NoCap(blend, dt) == Min(blend + dt, 100)

\* Faulty variant of HiddenBlend: computed from the elapsed time alone.
HiddenBlend_FromScratch(blend, dt) == Min(Min(dt, DeltaCap), 100)

\* Lines 169-170: (ai_data.blend + delta).min(1.0).
HiddenBlend(blend, dt) == Min(blend + Min(dt, DeltaCap), 100)

\* Faulty variant of VisibleBlend: the near and far results exchanged.
VisibleBlend_Swapped(dist_sq) ==
    IF dist_sq < (AI_MIN_FLEE_DISTANCE * Unit) * (AI_MIN_FLEE_DISTANCE * Unit)
    THEN 100
    ELSE 100 - Clamp(RoundDiv((Sqrt100(dist_sq) - AI_MIN_FLEE_DISTANCE * Unit * 100) * 100,
                              (AI_MAX_DETECTION_DISTANCE - AI_MIN_FLEE_DISTANCE) * Unit * 100),
                     0, 100)

\* Lines 173-182, from the squared distance in units.
VisibleBlend(dist_sq) ==
    IF /\ AI_MAX_DETECTION_DISTANCE - AI_MIN_FLEE_DISTANCE > 0
       /\ dist_sq >= (AI_MIN_FLEE_DISTANCE * Unit) * (AI_MIN_FLEE_DISTANCE * Unit)
    THEN Clamp(RoundDiv((Sqrt100(dist_sq) - AI_MIN_FLEE_DISTANCE * Unit * 100) * 100,
                        (AI_MAX_DETECTION_DISTANCE - AI_MIN_FLEE_DISTANCE) * Unit * 100),
               0, 100)
    ELSE IF dist_sq < (AI_MIN_FLEE_DISTANCE * Unit) * (AI_MIN_FLEE_DISTANCE * Unit)
    THEN 0
    ELSE 100

\* Lines 166-183.
NewBlend(can_see_player, dist_sq, blend, dt) ==
    IF ~can_see_player THEN HiddenBlend(blend, dt) ELSE VisibleBlend(dist_sq)

\* ------------------------------------------------------------------------
\* Steering controller: headings and the 16-direction selection.
\* ------------------------------------------------------------------------
\* Lines 196-207.  length_squared() > 0.0001 holds of every non-zero vector
\* of whole units.
flee_dir(player, ai_pos, velocity) ==
    IF VSub(player, ai_pos) # <<0, 0>>
    THEN VNeg(normalize_or_zero(VSub(player, ai_pos)))
    ELSE IF velocity # <<0, 0>>
    THEN VNeg(normalize_or_zero(velocity))
    ELSE <<DirScale, 0>>

\* get_wander_dir, lines 328-333.
VelocityDir(velocity, wander_angle) ==
    IF velocity # <<0, 0>> THEN normalize_or_zero(velocity)
    ELSE from_angle(wander_angle)

\* get_wander_dir, lines 340-344.
VelocityAngle(velocity, wander_angle) ==
    IF velocity # <<0, 0>> THEN atan2(velocity) ELSE wander_angle

\* get_wander_dir, lines 336-337.
WanderPoint(velocity, position, wander_angle) ==
    VAdd(Scaled(VelocityDir(velocity, wander_angle), AI_RAYCAST_DISTANCE * Unit),
         position)

\* get_wander_dir, lines 347-348.
CircleCenter(velocity, position, wander_angle) ==
    VAdd(Scaled(from_angle(wander_angle + VelocityAngle(velocity, wander_angle)),
                AI_WANDER_RADIUS * Unit),
         WanderPoint(velocity, position, wander_angle))

\* get_wander_dir: the returned direction (the random increment of
\* *wander_angle happens in the caller's record, see FinishUpdate).
get_wander_dir(velocity, position, wander_angle) ==
    normalize_or_zero(VSub(CircleCenter(velocity, position, wander_angle), position))

\* Lines 227-229.
DirWeights(blended_dir) ==
    [i \in 1..16 |-> Dot(get_direction_vectors[i], blended_dir)]

\* Faulty variant of sort_by: the indices are left in their order.
sort_by_Unsorted(dir_indices, weights) == dir_indices

\* The number of entries a stable descending sort puts before entry k:
\* those of larger weight, and those of equal weight that came earlier.
RankOf(dir_indices, weights, k) ==
    Cardinality({j \in 1..Len(dir_indices) :
                    \/ weights[dir_indices[j]] > weights[dir_indices[k]]
                    \/ /\ weights[dir_indices[j]] = weights[dir_indices[k]]
                       /\ j < k})

\* dir_indices.sort_by(descending weight): a stable sort (lines 236-240).
sort_by(dir_indices, weights) ==
    TheOne({[p \in 1..Len(dir_indices) |->
                dir_indices[CHOOSE k \in 1..Len(dir_indices) : rank[k] = p - 1]] :
            rank \in {<<>> \o [k \in 1..Len(dir_indices) |->
                                  RankOf(dir_indices, weights, k)]}})

\* Line 252.
RayEndOf(ai_pos, dir) == VAdd(ai_pos, Scaled(dir, AI_RAYCAST_DISTANCE * Unit))

\* Lines 255-264.
Obstructed(sg, ai_pos, ray_end) ==
    AnyIntersect(edges_along_ray(sg, ai_pos, ray_end), ai_pos, ray_end)

\* The direction at place p of the order is obstructed.
PlaceObstructed(sg, order, ai_pos, p) ==
    Obstructed(sg, ai_pos, RayEndOf(ai_pos, get_direction_vectors[order[p]]))

\* Lines 250-271: the first unobstructed index of the order, 0 when every
\* direction is obstructed (found_valid_dir = false).
FirstValid(sg, order, ai_pos) ==
    IF \A p \in 1..Len(order) : PlaceObstructed(sg, order, ai_pos, p) THEN 0
    ELSE order[CHOOSE p \in 1..Len(order) :
                  /\ ~PlaceObstructed(sg, order, ai_pos, p)
                  /\ \A q \in 1..(p - 1) : PlaceObstructed(sg, order, ai_pos, q)]

\* Lines 266-280.
ActualDir(found, blended_dir) ==
    IF found # 0 THEN get_direction_vectors[found]
    ELSE normalize_or_zero(blended_dir)

\* ------------------------------------------------------------------------
\* Steering controller: the body of the entity loop of s_flee_ai_movement
\* (src/ai/flee.rs lines 127-294), in the order of the code.  e is the
\* entity's [pos, phys], ai its FleeAI component, c the system's cache,
\* owner the entity whose raycast wrote cached_los_result.
\* ------------------------------------------------------------------------
\* Line 283.
DesiredVelocity(actual_dir, blend) ==
    Scaled(actual_dir, lerp(FLEE_MAX_SPEED * Unit, WANDER_MAX_SPEED * Unit, blend))

\* Line 284.
Steering(desired_velocity, velocity) ==
    <<RoundDiv(desired_velocity[1] - velocity[1], SteeringDivisor),
      RoundDiv(desired_velocity[2] - velocity[2], SteeringDivisor)>>

\* Faulty variant of MoveEntity: prev_position stored after the move.
MoveEntity_StoredAfter(e, steering, new_velocity) ==
    [pos |-> VAdd(e.pos, new_velocity),
     phys |-> [e.phys EXCEPT !.prev_position = VAdd(e.pos, new_velocity),
                             !.acceleration = steering,
                             !.velocity = new_velocity]]

\* Lines 286-291, given the new velocity.
MoveEntity(e, steering, new_velocity) ==
    [pos |-> VAdd(e.pos, new_velocity),
     phys |-> [e.phys EXCEPT !.prev_position = e.pos,
                             !.acceleration = steering,
                             !.velocity = new_velocity]]

\* Lines 185-293: what the iteration leaves behind.
FinishUpdate(los, blend, blended_dir, found, actual_dir, steering, c, player, dt, disp, e, ai, i, owner) ==
    [ent |-> MoveEntity(e, steering, VAdd(e.phys.velocity, steering)),
     ai |-> [dir_weights |-> DirWeights(blended_dir),
             wander_angle |-> ai.wander_angle + disp,
             color |-> <<100 - blend, blend, 0>>,
             blend |-> blend],
     cache |-> los.cache,
     owner |-> IF los.reused THEN owner ELSE i,
     obs |-> [updated |-> TRUE, ai_pos |-> e.pos, player |-> player, dt |-> dt,
              can_see_player |-> los.can_see_player, reused |-> los.reused,
              owner |-> IF los.reused THEN owner ELSE i,
              cache_before |-> c, cache_after |-> los.cache,
              blend_before |-> ai.blend, blended_dir |-> blended_dir,
              found |-> found, actual_dir |-> actual_dir,
              desired_velocity |-> DesiredVelocity(actual_dir, blend)]]

\* Lines 283-284, given actual_dir.
WithDirection(los, blend, blended_dir, found, actual_dir, c, player, dt, disp, e, ai, i, owner) ==
    TheOne({FinishUpdate(los, blend, blended_dir, found, actual_dir, steering,
                         c, player, dt, disp, e, ai, i, owner) :
            steering \in {Steering(DesiredVelocity(actual_dir, blend),
                                   e.phys.velocity)}})

\* Lines 273-280, given the selection's result.
WithChoice(los, blend, blended_dir, found, c, player, dt, disp, e, ai, i, owner) ==
    TheOne({WithDirection(los, blend, blended_dir, found, actual_dir,
                          c, player, dt, disp, e, ai, i, owner) :
            actual_dir \in {ActualDir(found, blended_dir)}})

\* Lines 224-271, given blended_dir.
WithHeading(sg, los, blend, blended_dir, c, player, dt, disp, e, ai, i, owner) ==
    TheOne({WithChoice(los, blend, blended_dir, found,
                       c, player, dt, disp, e, ai, i, owner) :
            found \in {FirstValid(sg, sort_by(DIR_INDICES, DirWeights(blended_dir)),
                                  e.pos)}})

\* Lines 192-220, given blend.
WithBlend(sg, los, blend, c, player, dt, disp, e, ai, i, owner) ==
    TheOne({WithHeading(sg, los, blend, blended_dir,
                        c, player, dt, disp, e, ai, i, owner) :
            blended_dir \in
                {VLerp(flee_dir(player, e.pos, e.phys.velocity),
                       get_wander_dir(e.phys.velocity, e.pos, ai.wander_angle),
                       blend)}})

\* Lines 163-183, given the line-of-sight result.
WithLineOfSight(sg, los, c, player, dt, disp, e, ai, i, owner) ==
    TheOne({WithBlend(sg, los, blend, c, player, dt, disp, e, ai, i, owner) :
            blend \in {NewBlend(los.can_see_player,
                                LengthSquared(VSub(player, e.pos)), ai.blend, dt)}})

\* Lines 129-160, then the rest of the iteration.
UpdateEntity(sg, c, player_moved, player, dt, disp, e, ai, i, owner) ==
    TheOne({WithLineOfSight(sg, los, c, player, dt, disp, e, ai, i, owner) :
            los \in {LineOfSight(sg, c, player_moved, player, e.pos)}})

\* The system's state after entity i: st = [ents, ais, cache, obs, owner].
AfterEntity(st, i, r) ==
    [ents |-> [st.ents EXCEPT ![i] = r.ent],
     ais |-> [st.ais EXCEPT ![i] = r.ai],
     cache |-> r.cache,
     obs |-> [st.obs EXCEPT ![i] = r.obs],
     owner |-> r.owner]

\* for (..) in flee_ai_query.iter_mut(), entities in query order.
RECURSIVE EntityLoop(_, _, _, _, _, _, _)
EntityLoop(st, i, sg, player_moved, player, dt, disps) ==
    IF i > Len(st.ents) THEN st
    ELSE TheOne({EntityLoop(next, i + 1, sg, player_moved, player, dt, disps) :
                 next \in {AfterEntity(st, i,
                                       UpdateEntity(sg, st.cache, player_moved,
                                                    player, dt, disps[i],
                                                    st.ents[i], st.ais[i], i,
                                                    st.owner))}})

\* s_flee_ai_movement as a function of the state it reads: player_moved
\* from the cache as the previous call left it, frame_count += 1, the loop.
FleeSystem(st, sg, player, dt, disps) ==
    EntityLoop([st EXCEPT !.cache.frame_count = @ + 1], 1, sg,
               PlayerMoved(player, st.cache), player, dt, disps)

\* ------------------------------------------------------------------------
\* State.
\* ------------------------------------------------------------------------
VARIABLES
    polygons,    \* Level.polygons: sequence of [points, collision_side]
    sgrid,       \* the SpatialGrid resource: [cell_size, grid]
    built,       \* whether SpatialGrid::new has run
    ray,         \* the (start, end) of the last edges_along_ray call
    ray_edges,   \* the Vec<Edge> that call returned
    queries,     \* number of edges_along_ray calls so far
    ents,        \* the physics entities: sequence of [pos, phys]
    phase,       \* which system of the frame runs next: "move", "steer", "collide"
    frame,       \* number of frames completed
    approach,    \* head-on scenario: [axis, side] of the entity's approach
    player_pos,  \* the PlayerPosition resource
    ais,         \* the FleeAI components, ais[i] belongs to ents[i]
    cache,       \* the Local<SystemCache> of s_flee_ai_movement
    obs,         \* per AI entity, the locals of its last update
    los_owner,   \* the entity whose raycast wrote cache.cached_los_result
    hidden,      \* per AI entity, the time the player has not been visible
    lvl,         \* the locals of generate_level_polygons and where it stands
    gizmos_visible, \* the GizmosVisible resource
    twin,        \* the same run of the steering system under the other flag
    call         \* a geometry function called on its own: its arguments and result

vars == <<polygons, sgrid, built, ray, ray_edges, queries,
          ents, phase, frame, approach,
          player_pos, ais, cache, obs, los_owner, hidden,
          lvl, gizmos_visible, twin, call>>

\* The variables of the level builder, of the debug flag and of the geometry
\* functions called on their own.
otherVars == <<lvl, gizmos_visible, twin, call>>

gridVars == <<sgrid, built, ray, ray_edges, queries>>

aiVars == <<player_pos, ais, cache, obs, los_owner, hidden>>

\* No steering controller in the scenario.
NoAI ==
    /\ player_pos = <<0, 0>>
    /\ ais = <<>>
    /\ cache = SystemCache
    /\ obs = <<>>
    /\ los_owner = 0
    /\ hidden = <<>>

NoApproach == [axis |-> 0, side |-> 0]

\* No level is being built in the scenario.
NoLevel == lvl = [stage |-> "none"]

\* No geometry function is called on its own in the scenario.
NoCall == call = [fn |-> "none"]

\* No second run in the scenario.
NoTwin ==
    /\ gizmos_visible = FALSE
    /\ twin = [ents |-> <<>>]

\* ------------------------------------------------------------------------
\* Spatial index scenario: a level of one edge, a grid built from it, and
\* queries along arbitrary segments.
\* ------------------------------------------------------------------------
Coords == (-MaxCoord)..MaxCoord

Points == Coords \X Coords

\* Cell sizes tried by the grid scenario.
CellSizes == {2, 3}

NoRay == <<>>

GridInit ==
    /\ \E a \in Points, b \in Points :
          /\ a # b
          /\ polygons = <<[points |-> <<a, b>>, collision_side |-> 1]>>
    /\ \E c \in CellSizes : sgrid = [cell_size |-> c, grid |-> <<>>]
    /\ built = FALSE
    /\ ray = NoRay
    /\ ray_edges = <<>>
    /\ queries = 0
    /\ NoLevel
    /\ NoTwin
    /\ NoCall
    /\ ents = <<>>
    /\ phase = "idle"
    /\ frame = 0
    /\ approach = NoApproach
    /\ NoAI

\* SpatialGrid::new(polygons, cell_size).
GridNew ==
    /\ ~built
    /\ sgrid' = SpatialGrid_new(polygons, sgrid.cell_size)
    /\ built' = TRUE
    /\ UNCHANGED <<polygons, ray, ray_edges, queries, ents, phase, frame, approach, otherVars,
                   aiVars>>

\* SpatialGrid::edges_along_ray(start, end).
GridQuery ==
    /\ built
    /\ queries < MaxQueries
    /\ queries' = queries + 1
    /\ \E start \in Points, end \in Points :
          /\ ray' = <<start, end>>
          /\ ray_edges' = edges_along_ray(sgrid, start, end)
    /\ UNCHANGED <<polygons, sgrid, built, ents, phase, frame, approach, otherVars, aiVars>>

GridNext == GridNew \/ GridQuery

SpecGrid == GridInit /\ [][GridNext]_vars

\* ------------------------------------------------------------------------
\* Claims about the spatial index.
\* ------------------------------------------------------------------------
\* The cells (floor(x / cell_size), floor(y / cell_size)) in which the
\* segment start..end runs for a piece of positive length.  The segment
\* changes cell only at parameters that are multiples of 1 / (|dx| * |dy|),
\* so the odd multiples of 1 / (2 * |dx| * |dy|) hit every such piece.
SegmentCells(start, end, cell_size) ==
    LET dx == end[1] - start[1]
        dy == end[2] - start[2]
        n == 2 * Max(1, Abs(dx)) * Max(1, Abs(dy))
    IN  {<<FloorDiv(start[1] * n + dx * k, n * cell_size),
           FloorDiv(start[2] * n + dy * k, n * cell_size)>> :
            k \in {j \in 1..n : j % 2 = 1}}

InBucket(edge, cell) ==
    cell \in DOMAIN sgrid.grid /\ edge \in Range(sgrid.grid[cell])

\* C1: every polygon edge that line_intersect finds crossing the query
\* segment is among the edges edges_along_ray returned for that segment.
C1_NoFalseNegatives ==
    (built /\ ray # NoRay) =>
        \A e \in Range(AllEdges(polygons)) :
            line_intersect(e.start, e.end, ray[1], ray[2])
                => e \in Range(ray_edges)

\* C2: after SpatialGrid::new every edge is in the bucket of every cell
\* its segment passes through.
C2_EdgeInEveryCell ==
    built =>
        \A e \in Range(AllEdges(polygons)) :
            \A cell \in SegmentCells(e.start, e.end, sgrid.cell_size) :
                InBucket(e, cell)

\* ------------------------------------------------------------------------
\* Head-on scenario: one entity in front of one straight wall edge through
\* the origin, on the side the wall's polygon collides on, moving
\* perpendicularly toward the wall.  Each frame runs the movement system and
\* then s_collision.
\* ------------------------------------------------------------------------
\* main.rs: the largest per-frame displacement of an entity, in pixels.
PLAYER_MAX_SPEED == 5

\* Physics.radius of the player (12) and of the AI (8), and a small one.
Radii == {4, 8, 12}

\* Half the length of the wall, in pixels.
WallHalfLength == 40

\* Starting clearances beyond the radius, in units.
StartGaps == {0, (PLAYER_MAX_SPEED * Unit) \div 2}

\* The wall runs along the other axis than `axis`, in direction `dir`.
WallPoints(axis, dir) ==
    IF axis = 1
    THEN <<<<0, -dir * WallHalfLength * Unit>>, <<0, dir * WallHalfLength * Unit>>>>
    ELSE <<<<-dir * WallHalfLength * Unit, 0>>, <<dir * WallHalfLength * Unit, 0>>>>

\* The point at signed distance d from the wall on axis `axis`.
OnAxis(axis, d) == IF axis = 1 THEN <<d, 0>> ELSE <<0, d>>

CollInit ==
    /\ \E axis \in {1, 2}, dir \in {-1, 1}, side \in {-1, 1},
          r \in Radii, gap \in StartGaps :
          LET pts == WallPoints(axis, dir)
              p0 == OnAxis(axis, side * (r * Unit + gap))
          IN  /\ polygons = <<[points |-> pts,
                               collision_side |->
                                   side_of_line_detection(pts[1], pts[2], p0)]>>
              /\ ents = <<[pos |-> p0,
                           phys |-> [prev_position |-> p0,
                                     velocity |-> <<0, 0>>,
                                     acceleration |-> <<0, 0>>,
                                     radius |-> r * Unit,
                                     normal |-> <<0, 0>>]]>>
              /\ approach = [axis |-> axis, side |-> side]
    /\ phase = "move"
    /\ frame = 0
    /\ sgrid = [cell_size |-> 1, grid |-> <<>>]
    /\ built = FALSE
    /\ ray = NoRay
    /\ ray_edges = <<>>
    /\ queries = 0
    /\ NoLevel
    /\ NoTwin
    /\ NoCall
    /\ NoAI

\* The movement system of the frame (s_player_movement): it records
\* prev_position, sets the velocity and advances the position by it.  The
\* steering update is covered by letting the new velocity be any vector
\* that points at the wall with a length of 0..PLAYER_MAX_SPEED pixels.
MoveHeadOn ==
    /\ phase = "move"
    /\ frame < MaxFrames
    /\ \E speed \in 0..(PLAYER_MAX_SPEED * Unit) :
          LET v == OnAxis(approach.axis, -approach.side * speed)
          IN  ents' = [i \in DOMAIN ents |->
                         [pos |-> VAdd(ents[i].pos, v),
                          phys |-> [ents[i].phys EXCEPT
                                      !.prev_position = ents[i].pos,
                                      !.acceleration = VSub(v, ents[i].phys.velocity),
                                      !.velocity = v]]]
    /\ phase' = "collide"
    /\ UNCHANGED <<polygons, gridVars, frame, approach, otherVars, aiVars>>

\* s_collision: every entity against every polygon of the level.
s_collision ==
    /\ phase = "collide"
    /\ ents' = [i \in DOMAIN ents |-> CollideEntity(ents[i], polygons)]
    /\ phase' = "move"
    /\ frame' = frame + 1
    /\ UNCHANGED <<polygons, gridVars, approach, otherVars, aiVars>>

CollNext == MoveHeadOn \/ s_collision

SpecColl == CollInit /\ [][CollNext]_vars

\* ------------------------------------------------------------------------
\* Claims about the collision resolver.
\* ------------------------------------------------------------------------
\* The entity's distance from the wall, positive on the side it started on.
Clearance(e) == approach.side * e.pos[approach.axis]

AfterCollision == phase = "move" /\ frame > 0

\* C3 as stated: for every radius, after s_collision the centre is at
\* distance >= radius from the wall, on the side it started on.
C3_AnyRadius ==
    AfterCollision => \A i \in DOMAIN ents : Clearance(ents[i]) >= ents[i].phys.radius

\* C3 amended: the same for every entity whose radius is larger than the
\* largest per-frame displacement.
C3_NoPenetration ==
    AfterCollision =>
        \A i \in DOMAIN ents :
            ents[i].phys.radius > PLAYER_MAX_SPEED * Unit
                => Clearance(ents[i]) >= ents[i].phys.radius

\* Witness: an entity of radius > PLAYER_MAX_SPEED that started the frame clear of
\* the wall, moved closer than its radius and was pushed back out to
\* exactly its radius.
C3_Witness ==
    /\ AfterCollision
    /\ \E i \in DOMAIN ents :
          /\ ents[i].phys.radius > PLAYER_MAX_SPEED * Unit
          /\ Clearance([pos |-> ents[i].phys.prev_position]) > ents[i].phys.radius
          /\ Clearance(ents[i]) = ents[i].phys.radius
          /\ ents[i].phys.normal # <<0, 0>>
          /\ ents[i].phys.acceleration # <<0, 0>>

\* ------------------------------------------------------------------------
\* Steering scenario: a small level, its spatial grid, one or two AI
\* entities and a player position that changes by small steps.  Each frame
\* runs the player's position update, s_flee_ai_movement and s_collision.
\* ------------------------------------------------------------------------
\* Frames of the steering scenario.
MaxAIFrames == 2

\* grid_size of the level, in pixels (s_init).
GridSize == 32

\* Physics.radius of the AI entity, in pixels (s_init).
AIRadius == 8

\* A wall whose left end lies between the sight lines of two entities
\* standing 3 pixels apart; a closed box of 120 x 120 pixels around the
\* origin; an edge far from everything.
WallLevel == <<[points |-> <<<<10, 500>>, <<500, 500>>>>, collision_side |-> 1]>>

BoxLevel ==
    <<[points |-> <<<<-600, -600>>, <<600, -600>>, <<600, 600>>,
                    <<-600, 600>>, <<-600, -600>>>>,
       collision_side |-> 1]>>

FarLevel == <<[points |-> <<<<3000, 3000>>, <<3000, 3500>>>>, collision_side |-> 1]>>

\* The scenes: level, AI start positions, player start positions.
Scenes ==
    {[level |-> WallLevel, starts |-> <<<<0, 0>>, <<30, 0>>>>,
      players |-> {<<0, 1000>>, <<0, -1000>>}],
     [level |-> WallLevel, starts |-> <<<<0, 0>>, <<0, -1500>>>>,
      players |-> {<<0, 1000>>}],
     [level |-> BoxLevel, starts |-> <<<<0, 0>>>>,
      players |-> {<<0, 300>>, <<0, 1000>>}],
     [level |-> FarLevel, starts |-> <<<<0, 0>>>>,
      players |-> {<<0, 1000>>, <<0, 3000>>, <<0, 4500>>}]}

\* Starting blends (s_init: 1.0).
StartBlends == {0, 100}

\* Per-frame changes of the PlayerPosition resource, in units: none, 3
\* pixels, and 6 pixels (a 5 pixel velocity and a collision correction).
PlayerSteps == {<<0, 0>>, <<30, 0>>, <<60, 0>>}

\* time.delta_secs() in hundredths of a second.
DeltaTimes == {5, 50}

\* The level's polygons with collision_side set so that `inside` is on the
\* colliding side of the first edge.
Oriented(level, inside) ==
    [k \in DOMAIN level |->
        [level[k] EXCEPT !.collision_side =
            side_of_line_detection(level[k].points[1], level[k].points[2], inside)]]

\* The AI entity s_init spawns, at pos.
SpawnAI(pos) ==
    [pos |-> pos,
     phys |-> [prev_position |-> <<0, 0>>, velocity |-> <<Unit, 0>>,
               acceleration |-> <<0, 0>>, radius |-> AIRadius * Unit,
               normal |-> <<0, 0>>]]

SpawnFleeAI(blend) ==
    [dir_weights |-> [i \in 1..16 |-> 0], wander_angle |-> AngleSteps \div 4,
     color |-> <<0, 100, 0>>, blend |-> blend]

NoObs ==
    [updated |-> FALSE, ai_pos |-> <<0, 0>>, player |-> <<0, 0>>, dt |-> 0,
     can_see_player |-> FALSE, reused |-> FALSE, owner |-> 0,
     cache_before |-> SystemCache, cache_after |-> SystemCache,
     blend_before |-> 0, blended_dir |-> <<0, 0>>, found |-> 0,
     actual_dir |-> <<0, 0>>, desired_velocity |-> <<0, 0>>]

NoHidden == [secs |-> 0, capped |-> 0]

AIInit ==
    /\ \E sc \in Scenes, b \in StartBlends :
          /\ polygons = Oriented(sc.level, sc.starts[1])
          /\ sgrid = SpatialGrid_new(sc.level, GridSize * Unit)
          /\ ents = [i \in DOMAIN sc.starts |-> SpawnAI(sc.starts[i])]
          /\ ais = [i \in DOMAIN sc.starts |-> SpawnFleeAI(b)]
          /\ obs = [i \in DOMAIN sc.starts |-> NoObs]
          /\ hidden = [i \in DOMAIN sc.starts |-> NoHidden]
          /\ player_pos \in sc.players
    /\ built = TRUE
    /\ cache = SystemCache
    /\ los_owner = 0
    /\ ray = NoRay
    /\ ray_edges = <<>>
    /\ queries = 0
    /\ NoLevel
    /\ NoTwin
    /\ NoCall
    /\ phase = "move"
    /\ frame = 0
    /\ approach = NoApproach

\* s_player_movement, as far as the steering controller sees it: the
\* PlayerPosition resource changes.
PlayerPositionUpdate ==
    /\ phase = "move"
    /\ frame < MaxAIFrames
    /\ \E step \in PlayerSteps : player_pos' = VAdd(player_pos, step)
    /\ phase' = "steer"
    /\ UNCHANGED <<polygons, gridVars, ents, frame, approach, otherVars,
                   ais, cache, obs, los_owner, hidden>>

\* The time the player has been hidden from an entity, after an update
\* that used can_see_player: the elapsed times as they are, and each
\* counted as at most DeltaCap; both stop counting at one second.
HiddenAfter(h, can_see_player, dt) ==
    IF can_see_player THEN NoHidden
    ELSE [secs |-> Min(h.secs + dt, 100),
          capped |-> Min(h.capped + Min(dt, DeltaCap), 100)]

\* The variables after the system returned st.
Adopt(st) ==
    /\ ents' = st.ents
    /\ ais' = st.ais
    /\ cache' = st.cache
    /\ obs' = st.obs
    /\ los_owner' = st.owner
    /\ hidden' = [i \in DOMAIN hidden |->
                     HiddenAfter(hidden[i], st.obs[i].can_see_player, st.obs[i].dt)]

\* s_flee_ai_movement (src/ai/flee.rs).
s_flee_ai_movement ==
    /\ phase = "steer"
    /\ \E dt \in DeltaTimes, disps \in [DOMAIN ents -> WanderDisplacements] :
          Adopt(FleeSystem([ents |-> ents, ais |-> ais, cache |-> cache,
                            obs |-> obs, owner |-> los_owner],
                           sgrid, player_pos, dt, disps))
    /\ phase' = "collide"
    /\ UNCHANGED <<polygons, gridVars, frame, approach, otherVars, player_pos>>

AINext == PlayerPositionUpdate \/ s_flee_ai_movement \/ s_collision

SpecAI == AIInit /\ [][AINext]_vars

\* ------------------------------------------------------------------------
\* Claims about the steering controller's line-of-sight cache.
\* ------------------------------------------------------------------------
DistSq(a, b) == LengthSquared(VSub(a, b))

\* The cache held a result when entity i was updated, and the player or the
\* entity was farther than the threshold from the positions stored with it.
MovedSinceCached(i) ==
    /\ obs[i].cache_before.cached_los_result # <<>>
    /\ \/ DistSq(obs[i].player, obs[i].cache_before.last_player_pos) > ThresholdSquared
       \/ DistSq(obs[i].ai_pos, obs[i].cache_before.last_ai_pos) > ThresholdSquared

\* C4: a cached line-of-sight result is reused for an entity only if the
\* player and the entity are within LOS_CACHE_THRESHOLD of the positions
\* the cached result was computed at; if either has moved more than the
\* threshold, line of sight is recomputed from the current positions and
\* the cache is overwritten with them.
C4_ReuseOnlyWithinThreshold ==
    \A i \in DOMAIN obs :
        obs[i].updated =>
            /\ obs[i].reused =>
                  /\ obs[i].cache_before.cached_los_result = <<obs[i].can_see_player>>
                  /\ DistSq(obs[i].player, obs[i].cache_before.last_player_pos)
                        <= ThresholdSquared
                  /\ DistSq(obs[i].ai_pos, obs[i].cache_before.last_ai_pos)
                        <= ThresholdSquared
            /\ MovedSinceCached(i) =>
                  /\ ~obs[i].reused
                  /\ obs[i].can_see_player
                        = ~AnyIntersect(edges_along_ray(sgrid, obs[i].ai_pos, obs[i].player),
                                        obs[i].ai_pos, obs[i].player)
                  /\ obs[i].cache_after.last_player_pos = obs[i].player
                  /\ obs[i].cache_after.last_ai_pos = obs[i].ai_pos
                  /\ obs[i].cache_after.cached_los_result = <<obs[i].can_see_player>>

\* Witness of C4: an entity reused the cached result after the player and
\* the entity had both moved, by less than the threshold.
C4_Witness ==
    \E i \in DOMAIN obs :
        /\ obs[i].updated
        /\ obs[i].reused
        /\ obs[i].player # obs[i].cache_before.last_player_pos
        /\ obs[i].ai_pos # obs[i].cache_before.last_ai_pos

\* C5 (its last sentence): the line-of-sight result an entity's update
\* uses was computed for that entity, not for another one.
C5_OwnLineOfSight ==
    \A i \in DOMAIN obs : obs[i].updated => obs[i].owner = i

\* ------------------------------------------------------------------------
\* Claims about the blend.
\* ------------------------------------------------------------------------
\* C6: the stored blend of every AI entity stays in [0, 1] (0..100
\* hundredths) over every sequence of frame updates.
C6_BlendInUnitInterval ==
    \A i \in DOMAIN ais : ais[i].blend >= 0 /\ ais[i].blend <= 100

\* Witness of C6: an update with the player hidden whose sum blend + delta
\* exceeded 1.0 and was stored as 1.0.
C6_Witness ==
    \E i \in DOMAIN obs :
        /\ obs[i].updated
        /\ ~obs[i].can_see_player
        /\ obs[i].blend_before + Min(obs[i].dt, DeltaCap) > 100
        /\ ais[i].blend = 100

\* The player was within the near-flee distance at entity i's last update.
NearAtUpdate(i) ==
    /\ obs[i].updated
    /\ DistSq(obs[i].player, obs[i].ai_pos)
          < (AI_MIN_FLEE_DISTANCE * Unit) * (AI_MIN_FLEE_DISTANCE * Unit)

\* C8 as stated: whenever the player is within the near-flee distance at a
\* frame update, the entity's blend after the update is 0.0.
C8_NearMeansFlee ==
    \A i \in DOMAIN obs : NearAtUpdate(i) => ais[i].blend = 0

\* C8 amended: the same when the line-of-sight result the update used says
\* that the player is visible.
C8_VisibleNearMeansFlee ==
    \A i \in DOMAIN obs :
        NearAtUpdate(i) /\ obs[i].can_see_player => ais[i].blend = 0

\* Witness of C8: a wandering entity (blend 1.0) saw the player within the
\* near-flee distance and its blend became 0.0.
C8_Witness ==
    \E i \in DOMAIN obs :
        /\ NearAtUpdate(i)
        /\ obs[i].can_see_player
        /\ obs[i].blend_before = 100
        /\ ais[i].blend = 0

\* ------------------------------------------------------------------------
\* Claims about the 16-direction selection.
\* ------------------------------------------------------------------------
\* Direction j is obstructed for entity i at its last update: an edge the
\* spatial index returns for the ray intersects the ray.
Blocked(i, j) ==
    AnyIntersect(edges_along_ray(sgrid, obs[i].ai_pos,
                                 RayEndOf(obs[i].ai_pos, get_direction_vectors[j])),
                 obs[i].ai_pos, RayEndOf(obs[i].ai_pos, get_direction_vectors[j]))

\* The dot product of direction j with the blended heading of entity i.
Score(i, j) == Dot(get_direction_vectors[j], obs[i].blended_dir)

\* C9: the direction the selection chooses is one of the 16, its ray is not
\* obstructed, and no unobstructed direction has a strictly greater dot
\* product with the blended heading; if no direction is obstructed and the
\* maximum is unique, the chosen direction is the one with the maximum.
C9_BestUnobstructed ==
    \A i \in DOMAIN obs :
        obs[i].updated /\ obs[i].found # 0 =>
            /\ obs[i].found \in 1..16
            /\ obs[i].actual_dir = get_direction_vectors[obs[i].found]
            /\ ~Blocked(i, obs[i].found)
            /\ \A j \in 1..16 :
                  ~Blocked(i, j) => Score(i, j) <= Score(i, obs[i].found)
            /\ (\A j \in 1..16 : ~Blocked(i, j)) =>
                  \A j \in 1..16 :
                      (\A k \in 1..16 : k # j => Score(i, k) < Score(i, j))
                          => obs[i].found = j

\* Witness of C9: the direction of the largest dot product was obstructed
\* and the selection chose an unobstructed one of smaller dot product.
C9_Witness ==
    \E i \in DOMAIN obs :
        /\ obs[i].updated
        /\ obs[i].found # 0
        /\ \E j \in 1..16 : Blocked(i, j) /\ Score(i, j) > Score(i, obs[i].found)

\* ------------------------------------------------------------------------
\* Blend scenario: the blend update of s_flee_ai_movement (src/ai/flee.rs
\* lines 163-183 and 293) of one entity over a run of frames, for every
\* line-of-sight result, player distance and elapsed time of each frame.
\* ------------------------------------------------------------------------
MaxBlendFrames == 12

\* Starting blends of the run, in hundredths.
BlendStarts == {0, 37, 100}

\* time.delta_secs() of a frame in hundredths of a second: none, 30 ms,
\* exactly the cap, half a second, a full second.
BlendDeltas == {0, 3, 10, 50, 100}

\* Player positions of a frame: 100, 300 and 500 pixels from the entity.
BlendPlayers == {<<0, 1000>>, <<0, 3000>>, <<0, 5000>>}

BlendInit ==
    /\ \E b \in BlendStarts : ais = <<SpawnFleeAI(b)>>
    /\ ents = <<SpawnAI(<<0, 0>>)>>
    /\ obs = <<NoObs>>
    /\ hidden = <<NoHidden>>
    /\ player_pos = <<0, 1000>>
    /\ cache = SystemCache
    /\ los_owner = 0
    /\ polygons = <<>>
    /\ sgrid = [cell_size |-> GridSize * Unit, grid |-> <<>>]
    /\ built = TRUE
    /\ ray = NoRay
    /\ ray_edges = <<>>
    /\ queries = 0
    /\ NoLevel
    /\ NoTwin
    /\ NoCall
    /\ phase = "steer"
    /\ frame = 0
    /\ approach = NoApproach

\* One frame's blend update: lines 163-183 compute the blend from the
\* line-of-sight result, the distance and the elapsed time, line 185 sets
\* the color from it, line 293 stores it.
BlendUpdate ==
    /\ frame < MaxBlendFrames
    /\ \E can_see_player \in BOOLEAN, player \in BlendPlayers, dt \in BlendDeltas :
          LET blend == NewBlend(can_see_player,
                                LengthSquared(VSub(player, ents[1].pos)),
                                ais[1].blend, dt)
          IN  /\ ais' = [ais EXCEPT ![1].blend = blend,
                                    ![1].color = <<100 - blend, blend, 0>>]
              /\ obs' = [obs EXCEPT ![1].updated = TRUE,
                                    ![1].ai_pos = ents[1].pos,
                                    ![1].player = player,
                                    ![1].dt = dt,
                                    ![1].can_see_player = can_see_player,
                                    ![1].blend_before = ais[1].blend]
              /\ hidden' = [hidden EXCEPT
                               ![1] = HiddenAfter(hidden[1], can_see_player, dt)]
              /\ player_pos' = player
    /\ frame' = frame + 1
    /\ UNCHANGED <<polygons, gridVars, ents, phase, approach, otherVars, cache, los_owner>>

BlendNext == BlendUpdate

SpecBlend == BlendInit /\ [][BlendNext]_vars

\* C7 as stated: at the end of a run of frames in which the player was not
\* visible and whose elapsed times sum to at least one second, the blend is
\* exactly 1.0, and it stays 1.0 while the player stays not visible.
C7_HiddenForASecond ==
    \A i \in DOMAIN hidden : hidden[i].secs >= 100 => ais[i].blend = 100

\* C7 amended: the same with each frame's elapsed time counted as at most
\* 100 ms, for a run of frames whose line-of-sight result was not visible.
C7_HiddenForACappedSecond ==
    \A i \in DOMAIN hidden : hidden[i].capped >= 100 => ais[i].blend = 100

\* Witness of C7: an update with the player not visible brought the capped
\* hidden time to one second and raised the blend from below 1.0 to 1.0.
C7_Witness ==
    \E i \in DOMAIN hidden :
        /\ obs[i].updated
        /\ ~obs[i].can_see_player
        /\ hidden[i].capped >= 100
        /\ obs[i].blend_before < 100
        /\ ais[i].blend = 100

\* ------------------------------------------------------------------------
\* The flee system of src/main.rs (s_flee_ai_movement, lines 199-342), the
\* one main() adds to the Update schedule (line 39).  It tests the level's
\* polygons edge by edge, keeps no cache, and has its own constants.
\* ------------------------------------------------------------------------
FLEE_AI_MAX_SPEED == 3

\* PLAYER_STEERING_SCALE = 0.1 = 1 / PlayerSteeringDivisor.
PlayerSteeringDivisor == 10

\* let max_distance = 400.0; let min_distance = 200.0;
MainMaxDistance == 400

MainMinDistance == 200

\* The ray of a candidate direction: dir * 100.0.
MainRayLength == 100

\* Lines 211-230 and 302-319: line_intersect is Some for an edge
\* (points[k - 1], points[k]) of a polygon of the level and the segment (a, b).
CrossesLevel(polys, a, b) ==
    \E p \in 1..Len(polys) :
        \E k \in 1..(Len(polys[p].points) - 1) :
            line_intersect(polys[p].points[k], polys[p].points[k + 1], a, b)

\* Lines 235-242: no cap of the elapsed time, no upper clamp when visible.
MainBlend(can_see_player, dist_sq, blend, dt) ==
    IF ~can_see_player THEN Min(blend + dt, 100)
    ELSE Max(RoundDiv((Sqrt100(dist_sq) - MainMinDistance * Unit * 100) * 100,
                      (MainMaxDistance - MainMinDistance) * Unit * 100),
             0)

\* Line 256, with prev_position just set to the position (line 254).
MainFleeDir(player, position) == VNeg(normalize_or_zero(VSub(player, position)))

\* The function ai::flee::wander that line 258 calls is not in src/ai/flee.rs:
\* its result is any of these unit vectors, and it adds any of
\* WanderDisplacements to the wander angle it is handed.
WanderResults == {from_angle(a) : a \in {0, 8, 19, 30}}

\* Lines 297-298: Vec2::new(angle.cos(), angle.sin()) for angle = i * PI / 8,
\* i counted from 1 here.
MainDir(i) == from_angle(2 * (i - 1))

\* Lines 270-279.
MainDirWeights(blended_dir) == [i \in 1..16 |-> Dot(MainDir(i), blended_dir)]

\* Lines 300-319 for the direction at place p of the order.
MainPlaceObstructed(polys, order, position, p) ==
    CrossesLevel(polys, position,
                 VAdd(position, Scaled(MainDir(order[p]), MainRayLength * Unit)))

\* Lines 296-325: the first unobstructed index of the order, 0 when the loop
\* ends without one.
MainFirstValid(polys, order, position) ==
    IF \A p \in 1..Len(order) : MainPlaceObstructed(polys, order, position, p) THEN 0
    ELSE order[CHOOSE p \in 1..Len(order) :
                  /\ ~MainPlaceObstructed(polys, order, position, p)
                  /\ \A q \in 1..(p - 1) : MainPlaceObstructed(polys, order, position, q)]

\* Lines 294 and 321-327: actual_dir is Vec2::ZERO unless the loop set it.
MainActualDir(found) == IF found # 0 THEN MainDir(found) ELSE <<0, 0>>

\* Line 330.
MainDesiredVelocity(actual_dir, blend) ==
    Scaled(actual_dir, lerp(PLAYER_MAX_SPEED * Unit, FLEE_AI_MAX_SPEED * Unit, blend))

\* Line 331.
MainSteering(desired_velocity, velocity) ==
    <<RoundDiv(desired_velocity[1] - velocity[1], PlayerSteeringDivisor),
      RoundDiv(desired_velocity[2] - velocity[2], PlayerSteeringDivisor)>>

\* Lines 244-340, given the results of the steps before.
MainFinish(can_see_player, blend, blended_dir, found, steering, player, dt, disp, e, ai) ==
    [ent |-> [pos |-> VAdd(e.pos, VAdd(e.phys.velocity, steering)),
              phys |-> [e.phys EXCEPT !.prev_position = e.pos,
                                      !.acceleration = steering,
                                      !.velocity = VAdd(e.phys.velocity, steering)]],
     ai |-> [dir_weights |-> MainDirWeights(blended_dir),
             wander_angle |-> ai.wander_angle + disp,
             color |-> <<100 - blend, blend, 0>>,
             blend |-> blend],
     obs |-> [NoObs EXCEPT !.updated = TRUE, !.ai_pos = e.pos, !.player = player,
                           !.dt = dt, !.can_see_player = can_see_player,
                           !.blend_before = ai.blend, !.blended_dir = blended_dir,
                           !.found = found, !.actual_dir = MainActualDir(found),
                           !.desired_velocity =
                               MainDesiredVelocity(MainActualDir(found), blend)]]

\* Lines 282-331, given blended_dir and the selection's result.
MainWithChoice(can_see_player, blend, blended_dir, found, player, dt, disp, e, ai) ==
    TheOne({MainFinish(can_see_player, blend, blended_dir, found, steering,
                       player, dt, disp, e, ai) :
            steering \in {MainSteering(MainDesiredVelocity(MainActualDir(found), blend),
                                       e.phys.velocity)}})

\* Lines 267-328, given blended_dir.
MainWithHeading(polys, can_see_player, blend, blended_dir, player, dt, disp, e, ai) ==
    TheOne({MainWithChoice(can_see_player, blend, blended_dir, found,
                           player, dt, disp, e, ai) :
            found \in {MainFirstValid(polys,
                                      sort_by(DIR_INDICES, MainDirWeights(blended_dir)),
                                      e.pos)}})

\* Lines 254-267, given the blend and the result of the wander call.
MainWithBlend(polys, can_see_player, blend, wander_dir, player, dt, disp, e, ai) ==
    TheOne({MainWithHeading(polys, can_see_player, blend, blended_dir,
                            player, dt, disp, e, ai) :
            blended_dir \in {VLerp(MainFleeDir(player, e.pos), wander_dir, blend)}})

\* Lines 209-242, then the rest of the iteration.
MainUpdateEntity(polys, player, dt, wander_dir, disp, e, ai) ==
    TheOne({MainWithBlend(polys, can_see_player,
                          MainBlend(can_see_player, LengthSquared(VSub(player, e.pos)),
                                    ai.blend, dt),
                          wander_dir, player, dt, disp, e, ai) :
            can_see_player \in {~CrossesLevel(polys, e.pos, player)}})

\* ------------------------------------------------------------------------
\* Scenario of the program main() builds: s_player_movement,
\* s_flee_ai_movement of src/main.rs, s_collision, frame after frame.
\* ------------------------------------------------------------------------
\* The scenes: the entity inside the closed box, and the entity and the
\* player where s_init spawns them with an edge far from both.
MainScenes ==
    {[level |-> BoxLevel, starts |-> <<<<0, 0>>>>,
      players |-> {<<0, 300>>, <<0, 1000>>}],
     [level |-> FarLevel, starts |-> <<<<1000, 1000>>>>,
      players |-> {<<0, 0>>}]}

\* time.delta_seconds() in hundredths of a second.
MainDeltaTimes == {2, 50}

MainInit ==
    /\ \E sc \in MainScenes, b \in StartBlends :
          /\ polygons = Oriented(sc.level, sc.starts[1])
          /\ ents = [i \in DOMAIN sc.starts |-> SpawnAI(sc.starts[i])]
          /\ ais = [i \in DOMAIN sc.starts |-> SpawnFleeAI(b)]
          /\ obs = [i \in DOMAIN sc.starts |-> NoObs]
          /\ hidden = [i \in DOMAIN sc.starts |-> NoHidden]
          /\ player_pos \in sc.players
    /\ sgrid = [cell_size |-> GridSize * Unit, grid |-> <<>>]
    /\ built = FALSE
    /\ cache = SystemCache
    /\ los_owner = 0
    /\ ray = NoRay
    /\ ray_edges = <<>>
    /\ queries = 0
    /\ NoLevel
    /\ NoTwin
    /\ NoCall
    /\ phase = "move"
    /\ frame = 0
    /\ approach = NoApproach

\* s_flee_ai_movement (src/main.rs): every entity of the query.
main_s_flee_ai_movement ==
    /\ phase = "steer"
    /\ \E dt \in MainDeltaTimes, wander_dir \in WanderResults,
          disp \in WanderDisplacements :
          LET after == [i \in DOMAIN ents |->
                           MainUpdateEntity(polygons, player_pos, dt, wander_dir,
                                            disp, ents[i], ais[i])]
          IN  /\ ents' = [i \in DOMAIN ents |-> after[i].ent]
              /\ ais' = [i \in DOMAIN ents |-> after[i].ai]
              /\ obs' = [i \in DOMAIN ents |-> after[i].obs]
              /\ hidden' = [i \in DOMAIN hidden |->
                               HiddenAfter(hidden[i], after[i].obs.can_see_player, dt)]
    /\ phase' = "collide"
    /\ UNCHANGED <<polygons, gridVars, frame, approach, otherVars, player_pos, cache, los_owner>>

MainNext == PlayerPositionUpdate \/ main_s_flee_ai_movement \/ s_collision

SpecMain == MainInit /\ [][MainNext]_vars

\* Every one of the 16 rays of entity i's last update crosses the level.
AllBlocked(i) ==
    \A j \in 1..16 :
        CrossesLevel(polygons, obs[i].ai_pos,
                     VAdd(obs[i].ai_pos, Scaled(MainDir(j), MainRayLength * Unit)))

\* C10: when all 16 candidate directions are obstructed, the movement
\* direction is the normalized blended heading (normalize-or-zero), so the
\* desired velocity is not zero merely because every candidate is blocked.
C10_FallbackToBlendedHeading ==
    \A i \in DOMAIN obs :
        obs[i].updated /\ AllBlocked(i) =>
            obs[i].actual_dir = normalize_or_zero(obs[i].blended_dir)

\* ------------------------------------------------------------------------
\* Level builder (src/level.rs): generate_level_polygons.  Points are in
\* pixels.  json_data is the parsed tile grid, a sequence of rows; x and y
\* count from 0 as in the code.
\* ------------------------------------------------------------------------
\* json_data[y][x].
Tile(json_data, x, y) == json_data[y + 1][x + 1]

\* Vec2::new(x as f32 * grid_size, y as f32 * grid_size).
Corner(x, y, grid_size) == <<x * grid_size, y * grid_size>>

\* The two points pushed for each side of tile (x, y).
LeftEdge(x, y, g) == <<Corner(x, y, g), Corner(x, y + 1, g)>>

RightEdge(x, y, g) == <<Corner(x + 1, y, g), Corner(x + 1, y + 1, g)>>

TopEdge(x, y, g) == <<Corner(x, y, g), Corner(x + 1, y, g)>>

BottomEdge(x, y, g) == <<Corner(x, y + 1, g), Corner(x + 1, y + 1, g)>>

\* Faulty variant of LeftOpen: the grid's left boundary does not count as open.
LeftOpen_Inside(json_data, x, y) == x > 0 /\ Tile(json_data, x - 1, y) = 0

\* x == 0 || json_data[y][x - 1] == 0
LeftOpen(json_data, x, y) == x = 0 \/ Tile(json_data, x - 1, y) = 0

\* x == json_data[y].len() - 1 || json_data[y][x + 1] == 0
RightOpen(json_data, x, y) ==
    x = Len(json_data[y + 1]) - 1 \/ Tile(json_data, x + 1, y) = 0

\* y == 0 || json_data[y - 1][x] == 0
TopOpen(json_data, x, y) == y = 0 \/ Tile(json_data, x, y - 1) = 0

\* y == size.y as usize - 1 || json_data[y + 1][x] == 0
BottomOpen(json_data, x, y) ==
    y = Len(json_data) - 1 \/ Tile(json_data, x, y + 1) = 0

\* The points pushed when `open`, none otherwise.
PushIf(open, points) == IF open THEN points ELSE <<>>

\* Lines 33-66: tile 1, a square.
SquareLines(json_data, x, y, g) ==
    PushIf(LeftOpen(json_data, x, y), LeftEdge(x, y, g))
    \o PushIf(RightOpen(json_data, x, y), RightEdge(x, y, g))
    \o PushIf(TopOpen(json_data, x, y), TopEdge(x, y, g))
    \o PushIf(BottomOpen(json_data, x, y), BottomEdge(x, y, g))

\* Lines 67-201: tiles 2..5, right triangles; triangle_type = tile - 2.
TriangleLines(json_data, x, y, g, triangle_type) ==
    CASE triangle_type = 0 ->
            <<Corner(x, y, g), Corner(x + 1, y + 1, g)>>
            \o PushIf(BottomOpen(json_data, x, y), BottomEdge(x, y, g))
            \o PushIf(LeftOpen(json_data, x, y), LeftEdge(x, y, g))
      [] triangle_type = 1 ->
            <<Corner(x + 1, y, g), Corner(x, y + 1, g)>>
            \o PushIf(BottomOpen(json_data, x, y), BottomEdge(x, y, g))
            \o PushIf(RightOpen(json_data, x, y), RightEdge(x, y, g))
      [] triangle_type = 2 ->
            <<Corner(x, y + 1, g), Corner(x + 1, y, g)>>
            \o PushIf(TopOpen(json_data, x, y), TopEdge(x, y, g))
            \o PushIf(LeftOpen(json_data, x, y), LeftEdge(x, y, g))
      [] triangle_type = 3 ->
            <<Corner(x + 1, y + 1, g), Corner(x, y, g)>>
            \o PushIf(TopOpen(json_data, x, y), TopEdge(x, y, g))
            \o PushIf(RightOpen(json_data, x, y), RightEdge(x, y, g))
      [] OTHER -> <<>>

\* Lines 30-388: match tile.
TileLines(json_data, x, y, g) ==
    CASE Tile(json_data, x, y) = 1 -> SquareLines(json_data, x, y, g)
      [] Tile(json_data, x, y) \in 2..5 ->
            TriangleLines(json_data, x, y, g, Tile(json_data, x, y) - 2)
      [] OTHER -> <<>>

\* Lines 28-390: the loops over y and x, from tile number k on (row by
\* row, size_x tiles to the row), appended to line_points.
RECURSIVE EmitLines(_, _, _, _, _, _)
EmitLines(json_data, size_x, size_y, g, k, line_points) ==
    IF k >= size_x * size_y THEN line_points
    ELSE TheOne({EmitLines(json_data, size_x, size_y, g, k + 1, next) :
                 next \in {line_points
                           \o TileLines(json_data, k % size_x, k \div size_x, g)}})

\* Line i of line_points (i from 0): <<line_points[i * 2], line_points[i * 2 + 1]>>.
LineAt(line_points, i) == <<line_points[2 * i + 1], line_points[2 * i + 2]>>

\* Lines 420-432: which endpoints of line_1 and line_2 are equal, in the
\* order of the else-if chain; 0 when no point is shared.
SharedCase(line_1, line_2) ==
    IF line_1[1] = line_2[1] THEN 1
    ELSE IF line_1[1] = line_2[2] THEN 2
    ELSE IF line_1[2] = line_2[1] THEN 3
    ELSE IF line_1[2] = line_2[2] THEN 4
    ELSE 0

\* The lengths l below 400, multiples of 10, for which l * (1.0 / l) is not
\* 1.0 in f32: an axis-aligned vector of such a length does not normalize to
\* a unit vector exactly.
InexactLengths == {110, 220, 230, 330}

\* The length of an axis-aligned vector.
AxisLength(a) == Abs(a[1]) + Abs(a[2])

\* Lines 441-444: a.normalize().dot(b.normalize()).abs() == 1.0 in f32, for
\* a and b the differences of grid corners.  A zero vector normalizes to
\* NaN.  A horizontal or vertical vector normalizes to exactly (+-1, 0) or
\* (0, +-1) unless its length is one of InexactLengths, so two of the same
\* axis give exactly 1.0.  The diagonal of a cell normalizes to
\* (0.70710683, 0.70710683) for cells of 10 and to (0.70710677, 0.70710677)
\* for cells of 32; the dot product of two such vectors is 1.0000001 resp.
\* 0.99999994, never 1.0.
WeldDotIsOne(a, b) ==
    /\ a # <<0, 0>>
    /\ b # <<0, 0>>
    /\ \/ a[1] = 0 /\ b[1] = 0
       \/ a[2] = 0 /\ b[2] = 0
    /\ AxisLength(a) \notin InexactLengths
    /\ AxisLength(b) \notin InexactLengths

\* Faulty variant of Mergeable: a line is compared with itself too.
Mergeable_WithItself(line_points, i, j) ==
    /\ SharedCase(LineAt(line_points, i), LineAt(line_points, j)) # 0
    /\ WeldDotIsOne(VSub(LineAt(line_points, i)[1], LineAt(line_points, i)[2]),
                    VSub(LineAt(line_points, j)[1], LineAt(line_points, j)[2]))

\* Lines 405-450 for the pair (i, j): the pair is flagged for removal.
Mergeable(line_points, i, j) ==
    /\ i # j
    /\ SharedCase(LineAt(line_points, i), LineAt(line_points, j)) # 0
    /\ WeldDotIsOne(VSub(LineAt(line_points, i)[1], LineAt(line_points, i)[2]),
                    VSub(LineAt(line_points, j)[1], LineAt(line_points, j)[2]))

MergeablePairs(line_points, line_count) ==
    {pair \in (0..(line_count - 1)) \X (0..(line_count - 1)) :
        Mergeable(line_points, pair[1], pair[2])}

\* The pair the loops `for i` / `for j` reach first.
FirstPair(pairs) ==
    CHOOSE pair \in pairs :
        \A other \in pairs :
            \/ pair[1] < other[1]
            \/ pair[1] = other[1] /\ pair[2] <= other[2]

\* Faulty variant of RemovalData: the shared and the unique indices exchanged.
RemovalData_Exchanged(i, j, shared_case) ==
    CASE shared_case = 1 -> <<<<i * 2 + 1, j * 2 + 1>>, <<i * 2, j * 2>>>>
      [] shared_case = 2 -> <<<<i * 2 + 1, j * 2>>, <<i * 2, j * 2 + 1>>>>
      [] shared_case = 3 -> <<<<i * 2, j * 2 + 1>>, <<i * 2 + 1, j * 2>>>>
      [] shared_case = 4 -> <<<<i * 2, j * 2>>, <<i * 2 + 1, j * 2 + 1>>>>

\* Lines 421-431: (shared_point, unique_points) as indices into line_points.
RemovalData(i, j, shared_case) ==
    CASE shared_case = 1 -> <<<<i * 2, j * 2>>, <<i * 2 + 1, j * 2 + 1>>>>
      [] shared_case = 2 -> <<<<i * 2, j * 2 + 1>>, <<i * 2 + 1, j * 2>>>>
      [] shared_case = 3 -> <<<<i * 2 + 1, j * 2>>, <<i * 2, j * 2 + 1>>>>
      [] shared_case = 4 -> <<<<i * 2 + 1, j * 2 + 1>>, <<i * 2, j * 2>>>>

RemovalDataOf(line_points, pair) ==
    RemovalData(pair[1], pair[2],
                SharedCase(LineAt(line_points, pair[1]), LineAt(line_points, pair[2])))

\* Lines 400-452: point_removal_data after the scan, <<>> for None.
point_removal_data(line_points, line_count) ==
    TheOne({IF pairs = {} THEN <<>> ELSE RemovalDataOf(line_points, FirstPair(pairs)) :
            pairs \in {MergeablePairs(line_points, line_count)}})

\* Lines 461-471: line_points without the entries at the indices (from 0).
RemoveIndices(line_points, indices) ==
    Kept(line_points, {k \in 1..Len(line_points) : (k - 1) \notin indices})

\* Faulty variant of Welded: the shared points pushed, not the unique ones.
Welded_SharedPushed(line_points, data) ==
    RemoveIndices(line_points, {data[1][1], data[1][2], data[2][1], data[2][2]})
    \o <<line_points[data[1][1] + 1], line_points[data[1][2] + 1]>>

\* Lines 455-475: the four points removed, the two unique ones pushed.
Welded(line_points, data) ==
    RemoveIndices(line_points, {data[1][1], data[1][2], data[2][1], data[2][2]})
    \o <<line_points[data[2][1] + 1], line_points[data[2][2] + 1]>>

\* Faulty variant of Transformed: y is not negated.
Transformed_Unflipped(point, size_x, size_y, g) ==
    <<point[1] + (size_x * (-g)) \div 2, point[2] + (size_y * g) \div 2>>

\* Lines 482-486, with offset from line 24.
Transformed(point, size_x, size_y, g) ==
    <<point[1] + (size_x * (-g)) \div 2, -point[2] + (size_y * g) \div 2>>

\* Lines 597-607.
calculate_winding_order(vertices) ==
    LET n == Len(vertices)
        term(i) == (vertices[(i % n) + 1][1] - vertices[i][1])
                   * (vertices[(i % n) + 1][2] + vertices[i][2])
        sum[i \in 0..n] == IF i = 0 THEN 0 ELSE sum[i - 1] + term(i)
    IN  sum[n]

\* point + Vec2::new(2.0, 1.0) * 1000.0
TestLineEnd(point) == VAdd(point, <<2 * 1000, 1 * 1000>>)

\* Faulty variant of point_in_polygon: the loop starts one edge late.
point_in_polygon_FromSecond(polygon_lines, point) ==
    Cardinality({i \in 3..Len(polygon_lines) :
                    line_intersect(polygon_lines[i - 1], polygon_lines[i],
                                   point, TestLineEnd(point))}) % 2 = 1

\* Lines 609-627.
point_in_polygon(polygon_lines, point) ==
    Cardinality({i \in 2..Len(polygon_lines) :
                    line_intersect(polygon_lines[i - 1], polygon_lines[i],
                                   point, TestLineEnd(point))}) % 2 = 1

\* Lines 520-564: the first line i that starts or ends at current_vert,
\* -1 when there is none.
NextLine(line_points, line_count, current_vert) ==
    IF \A i \in 0..(line_count - 1) : current_vert \notin Range(LineAt(line_points, i))
    THEN -1
    ELSE CHOOSE i \in 0..(line_count - 1) :
            /\ current_vert \in Range(LineAt(line_points, i))
            /\ \A k \in 0..(i - 1) : current_vert \notin Range(LineAt(line_points, k))

\* Faulty variant of OtherEnd: the line's start pushed in both branches.
OtherEnd_AlwaysStart(line, current_vert) == line[1]

\* Lines 525-560: the point pushed for line i: its end if it starts at
\* current_vert, else its start.
OtherEnd(line, current_vert) == IF line[1] = current_vert THEN line[2] ELSE line[1]

\* Lines 517-568: while start_vert != current_vert, from the state
\* st = [polygon_lines, line_points, line_count].
RECURSIVE ClosePolygon(_)
ExtendPolygon(st, i) ==
    IF i < 0 THEN st
    ELSE ClosePolygon(
            [polygon_lines |->
                 Append(st.polygon_lines,
                        OtherEnd(LineAt(st.line_points, i),
                                 st.polygon_lines[Len(st.polygon_lines)])),
             line_points |-> RemoveIndices(st.line_points, {i * 2, i * 2 + 1}),
             line_count |-> st.line_count - 1])

ClosePolygon(st) ==
    IF st.polygon_lines[1] = st.polygon_lines[Len(st.polygon_lines)] THEN st
    ELSE TheOne({ExtendPolygon(st, i) :
                 i \in {NextLine(st.line_points, st.line_count,
                                 st.polygon_lines[Len(st.polygon_lines)])}})

\* Lines 570-574 and 587-591: the Polygon pushed (the container flag kept
\* with it; the color is left out).
MakePolygon(polygon_lines, is_container) ==
    [points |-> polygon_lines,
     collision_side |-> IF is_container
                        THEN -Signum(calculate_winding_order(polygon_lines))
                        ELSE Signum(calculate_winding_order(polygon_lines)),
     is_container |-> is_container]

\* ------------------------------------------------------------------------
\* Level scenario: generate_level_polygons on a tile grid, step by step:
\* edge emission, one iteration of the weld loop at a time, the coordinate
\* transform, one polygon of the assembly loop at a time, the return.
\* ------------------------------------------------------------------------
MaxRows == 2

MaxCols == 2

\* The tile codes of the grids: empty, square, the four right triangles.
TileCodes == 0..5

\* The 4 x 4 grid with border tiles 1 and interior tiles 0.
BorderGrid ==
    <<<<1, 1, 1, 1>>, <<1, 0, 0, 1>>, <<1, 0, 0, 1>>, <<1, 1, 1, 1>>>>

\* Every grid of up to MaxRows x MaxCols tiles, the border grid, a grid
\* without rows and grids without columns.
LevelGrids ==
    UNION {[1..r -> [1..c -> TileCodes]] : r \in 1..MaxRows, c \in 0..MaxCols}
    \cup {BorderGrid, <<>>}

\* The cell sizes: 10, and the sizes a level must not be built with.
LevelCellSizes == {10, 0, -10}

LevelInit ==
    /\ \E json_data \in LevelGrids, grid_size \in LevelCellSizes :
          lvl = [stage |-> "start", json_data |-> json_data, grid_size |-> grid_size,
                 line_points |-> <<>>, line_count |-> 0, welds |-> 0,
                 emitted |-> 0, polygons |-> <<>>]
    /\ polygons = <<>>
    /\ sgrid = [cell_size |-> 1, grid |-> <<>>]
    /\ built = FALSE
    /\ ray = NoRay
    /\ ray_edges = <<>>
    /\ queries = 0
    /\ ents = <<>>
    /\ phase = "idle"
    /\ frame = 0
    /\ approach = NoApproach
    /\ NoAI
    /\ NoTwin
    /\ NoCall

levelOthers ==
    <<polygons, gridVars, ents, phase, frame, approach, aiVars, gizmos_visible, twin, call>>

\* Lines 14-392.  json_data[0] of a grid without rows is an index out of
\* bounds: the function panics.
LevelEmit ==
    /\ lvl.stage = "start"
    /\ IF Len(lvl.json_data) = 0
       THEN lvl' = [lvl EXCEPT !.stage = "panic"]
       ELSE \E line_points \in {EmitLines(lvl.json_data, Len(lvl.json_data[1]),
                                          Len(lvl.json_data), lvl.grid_size, 0, <<>>)} :
               lvl' = [lvl EXCEPT !.stage = "weld",
                                  !.line_points = line_points,
                                  !.line_count = Len(line_points) \div 2,
                                  !.emitted = Len(line_points) \div 2]
    /\ UNCHANGED levelOthers

\* Lines 399-480: one iteration of the while loop.
LevelWeld ==
    /\ lvl.stage = "weld"
    /\ \E data \in {point_removal_data(lvl.line_points, lvl.line_count)} :
          IF data = <<>>
          THEN lvl' = [lvl EXCEPT !.stage = "transform"]
          ELSE lvl' = [lvl EXCEPT !.line_points = Welded(lvl.line_points, data),
                                  !.line_count = @ - 1,
                                  !.welds = @ + 1]
    /\ UNCHANGED levelOthers

\* Lines 482-486.
LevelTransform ==
    /\ lvl.stage = "transform"
    /\ lvl' = [lvl EXCEPT
                 !.stage = "assemble",
                 !.line_points =
                     [k \in 1..Len(lvl.line_points) |->
                         Transformed(lvl.line_points[k], Len(lvl.json_data[1]),
                                     Len(lvl.json_data), lvl.grid_size)]]
    /\ UNCHANGED levelOthers

\* Lines 498-592: one iteration of `while line_count > 0`.
LevelAssemble ==
    /\ lvl.stage = "assemble"
    /\ lvl.line_count > 0
    /\ \E st \in {ClosePolygon([polygon_lines |-> LineAt(lvl.line_points, 0),
                                line_points |-> RemoveIndices(lvl.line_points, {0, 1}),
                                line_count |-> lvl.line_count - 1])} :
          lvl' = [lvl EXCEPT
                    !.line_points = st.line_points,
                    !.line_count = st.line_count,
                    !.polygons =
                        Append(@, MakePolygon(st.polygon_lines,
                                              point_in_polygon(st.polygon_lines,
                                                               <<0, 0>>)))]
    /\ UNCHANGED levelOthers

\* Line 594.
LevelReturn ==
    /\ lvl.stage = "assemble"
    /\ lvl.line_count = 0
    /\ lvl' = [lvl EXCEPT !.stage = "done"]
    /\ UNCHANGED levelOthers

LevelNext == LevelEmit \/ LevelWeld \/ LevelTransform \/ LevelAssemble \/ LevelReturn

SpecLevel == LevelInit /\ [][LevelNext]_vars


\* ------------------------------------------------------------------------
\* Properties of the level builder.
\* ------------------------------------------------------------------------
\* The level of the border grid with cell size 10 has been returned.
BorderLevelDone ==
    /\ lvl.stage = "done"
    /\ lvl.json_data = BorderGrid
    /\ lvl.grid_size = 10

\* The corners of the axis-aligned square of half side h around the origin.
SquareCorners(h) == {<<-h, h>>, <<h, h>>, <<h, -h>>, <<-h, -h>>}

\* The polygon is the closed boundary of the square of half side h, holds the
\* origin, and its collision side is the negated sign of its winding order.
IsSquareContainer(polygon, h) ==
    /\ Len(polygon.points) = 5
    /\ polygon.points[5] = polygon.points[1]
    /\ Range(polygon.points) = SquareCorners(h)
    /\ \A k \in 1..4 : polygon.points[k][1] = polygon.points[k + 1][1]
                       \/ polygon.points[k][2] = polygon.points[k + 1][2]
    /\ polygon.is_container
    /\ polygon.collision_side = -Signum(calculate_winding_order(polygon.points))

IsClosed(polygon) == polygon.points[Len(polygon.points)] = polygon.points[1]

\* The level of a grid with at least one row and a positive cell size has
\* been returned.
LevelDone ==
    /\ lvl.stage = "done"
    /\ lvl.grid_size > 0

\* C12: every polygon returned for a rectangular grid of tile codes 0..5 is a
\* closed loop, its last point equals its first point.
C12_PolygonsClosed ==
    LevelDone => \A k \in 1..Len(lvl.polygons) : IsClosed(lvl.polygons[k])


\* ------------------------------------------------------------------------
\* line_intersect on its own: two segments with endpoints on a small integer
\* lattice (exact in f32), then the call.
\* ------------------------------------------------------------------------
MaxLattice == 3

Lattice == (0..MaxLattice) \X (0..MaxLattice)

\* Twice the signed area of the triangle p, q, r.
Orient(p, q, r) == cross_product(VSub(q, p), VSub(r, p))

Between(lo, x, hi) == (lo <= x /\ x <= hi) \/ (hi <= x /\ x <= lo)

\* r, collinear with p and q, lies on the segment from p to q.
OnSegment(p, q, r) ==
    /\ Orient(p, q, r) = 0
    /\ Between(p[1], r[1], q[1])
    /\ Between(p[2], r[2], q[2])

\* c and d lie strictly on different sides of the line through a and b.
Straddles(a, b, c, d) ==
    \/ Orient(a, b, c) > 0 /\ Orient(a, b, d) < 0
    \/ Orient(a, b, c) < 0 /\ Orient(a, b, d) > 0

\* The finite segments a-b and c-d have a point in common.
SegmentsShare(a, b, c, d) ==
    \/ Straddles(a, b, c, d) /\ Straddles(c, d, a, b)
    \/ OnSegment(a, b, c)
    \/ OnSegment(a, b, d)
    \/ OnSegment(c, d, a)
    \/ OnSegment(c, d, b)

\* The direction vectors of the segments have cross product zero: parallel,
\* collinear, or one of them of length zero.
Parallel(a, b, c, d) == cross_product(VSub(b, a), VSub(d, c)) = 0

SegInit ==
    /\ \E a \in Lattice, b \in Lattice, c \in Lattice, d \in Lattice :
          call = [fn |-> "line_intersect", done |-> FALSE,
                  line_1_start |-> a, line_1_end |-> b,
                  line_2_start |-> c, line_2_end |-> d, is_some |-> FALSE]
    /\ polygons = <<>>
    /\ sgrid = [cell_size |-> 1, grid |-> <<>>]
    /\ built = FALSE
    /\ ray = NoRay
    /\ ray_edges = <<>>
    /\ queries = 0
    /\ ents = <<>>
    /\ phase = "idle"
    /\ frame = 0
    /\ approach = NoApproach
    /\ NoAI
    /\ NoLevel
    /\ NoTwin

callOthers ==
    <<polygons, gridVars, ents, phase, frame, approach, aiVars, lvl, gizmos_visible, twin>>

\* utils.rs lines 7-28 (collisions.rs lines 130-151 is the same function).
SegIntersect ==
    /\ call.fn = "line_intersect"
    /\ ~call.done
    /\ call' = [call EXCEPT
                  !.done = TRUE,
                  !.is_some = line_intersect(call.line_1_start, call.line_1_end,
                                             call.line_2_start, call.line_2_end)]
    /\ UNCHANGED callOthers

SegNext == SegIntersect

SpecSeg == SegInit /\ [][SegNext]_vars

\* The call's segments have a point in common.
CallSegmentsShare ==
    SegmentsShare(call.line_1_start, call.line_1_end,
                  call.line_2_start, call.line_2_end)

CallParallel ==
    Parallel(call.line_1_start, call.line_1_end,
             call.line_2_start, call.line_2_end)

\* C13 as stated: line_intersect returns Some exactly when the two finite
\* segments share a point, collinear overlapping segments included.
C13_SomeIffShare ==
    (call.fn = "line_intersect" /\ call.done) =>
        (call.is_some <=> CallSegmentsShare)

\* C13 amended: line_intersect returns Some exactly when the direction vectors
\* of the segments have a non-zero cross product and the finite segments
\* share a point; parallel segments, collinear overlapping ones included,
\* give None.
C13_SomeIffCrossing ==
    (call.fn = "line_intersect" /\ call.done) =>
        (call.is_some <=> (~CallParallel /\ CallSegmentsShare))

\* Two collinear segments of non-zero length that overlap have been
\* intersected: the result is None.
C13_Witness ==
    /\ call.fn = "line_intersect"
    /\ call.done
    /\ CallSegmentsShare
    /\ CallParallel
    /\ call.line_1_start # call.line_1_end
    /\ call.line_2_start # call.line_2_end
    /\ ~call.is_some

\* The weld loop has finished on the edges of a grid with a positive cell size.
WeldFinished ==
    /\ lvl.stage = "transform"
    /\ lvl.grid_size > 0

\* The direction vector of the line.
LineVec(line) == VSub(line[2], line[1])

\* Lines i and j of line_points are distinct, share an endpoint and are
\* collinear.
CollinearNeighbours(line_points, i, j) ==
    /\ i # j
    /\ SharedCase(LineAt(line_points, i), LineAt(line_points, j)) # 0
    /\ cross_product(LineVec(LineAt(line_points, i)),
                     LineVec(LineAt(line_points, j))) = 0

\* C14: when the weld pass finishes, no two distinct edges that share an
\* endpoint are collinear (so a second pass changes nothing).
C14_NoCollinearNeighbours ==
    WeldFinished =>
        \A i \in 0..(lvl.line_count - 1), j \in 0..(lvl.line_count - 1) :
            ~CollinearNeighbours(lvl.line_points, i, j)


\* An iteration of the weld loop that found no pair: the loop exits and the
\* lines are as they were.
WeldExit ==
    /\ lvl'.stage = "transform"
    /\ lvl'.line_count = lvl.line_count
    /\ lvl'.line_points = lvl.line_points
    /\ lvl'.welds = lvl.welds

\* An iteration of the weld loop that merged one pair: the loop goes on with
\* one line less.
WeldMerge ==
    /\ lvl'.stage = "weld"
    /\ lvl'.line_count = lvl.line_count - 1
    /\ lvl'.welds = lvl.welds + 1

\* C15: the weld pass terminates: every iteration of its loop either finds no
\* pair and exits or merges exactly one pair and decreases line_count by
\* exactly 1, line_count never falls below 1 once an edge was emitted, and so
\* at most (initial count - 1) merges happen.
C15_WeldTerminates ==
    /\ [][lvl.stage = "weld" => (WeldExit \/ WeldMerge)]_vars
    /\ [](lvl.stage = "weld" => lvl.welds + lvl.line_count = lvl.emitted)
    /\ [](lvl.emitted >= 1 => lvl.welds <= lvl.emitted - 1)

\* The weld loop has exited after several merges.
C15_Witness ==
    /\ lvl.stage = "transform"
    /\ lvl.grid_size > 0
    /\ lvl.welds >= 2
    /\ lvl.line_count = lvl.emitted - lvl.welds

\* line_points as a sequence of lines.
LinesOf(line_points, line_count) ==
    [k \in 1..line_count |-> LineAt(line_points, k - 1)]

Ends(line) == {line[1], line[2]}

\* The sign of a coordinate difference: -1, 0 or 1.
StepSign(x) == IF x < 0 THEN -1 ELSE IF x > 0 THEN 1 ELSE 0

\* The number of cells a line between grid corners spans.
CellSpan(line, g) == Max(Abs(LineVec(line)[1]), Abs(LineVec(line)[2])) \div g

\* The corner k cells along the line from its start.
CornerAlong(line, g, k) ==
    <<line[1][1] + k * g * StepSign(LineVec(line)[1]),
      line[1][2] + k * g * StepSign(LineVec(line)[2])>>

\* The undirected one-cell segments the line covers.
CoveredBy(line, g) ==
    {{CornerAlong(line, g, k), CornerAlong(line, g, k + 1)} :
        k \in 0..(CellSpan(line, g) - 1)}

\* The one-cell segments the lines cover.
Covered(lines, g) == UNION {CoveredBy(lines[k], g) : k \in 1..Len(lines)}

\* new is old with the collinear lines at i and j, which share exactly one
\* endpoint, taken out and the line between their other endpoints appended.
WeldReplaces(old, new, i, j) ==
    /\ i # j
    /\ Cardinality(Ends(old[i]) \cap Ends(old[j])) = 1
    /\ cross_product(LineVec(old[i]), LineVec(old[j])) = 0
    /\ Len(new) = Len(old) - 1
    /\ SubSeq(new, 1, Len(new) - 1) = Kept(old, (1..Len(old)) \ {i, j})
    /\ new[Len(new)][1] # new[Len(new)][2]
    /\ Ends(new[Len(new)]) =
          (Ends(old[i]) \cup Ends(old[j])) \ (Ends(old[i]) \cap Ends(old[j]))

\* A weld step from the lines old to the lines new on a grid of cell size g.
WeldStepSound(old, new, g) ==
    /\ \E i \in 1..Len(old), j \in 1..Len(old) : WeldReplaces(old, new, i, j)
    /\ Covered(new, g) = Covered(old, g)

\* C16: each weld step replaces two collinear edges that share exactly one
\* endpoint by one edge between the two non-shared endpoints and leaves all
\* other edges unchanged; the edges cover the same grid segments before and
\* after the step.
C16_WeldStepSound ==
    [][(lvl.stage = "weld" /\ lvl'.stage = "weld") =>
          WeldStepSound(LinesOf(lvl.line_points, lvl.line_count),
                        LinesOf(lvl'.line_points, lvl'.line_count),
                        Abs(lvl.grid_size))]_vars

\* A weld step has put a line of two cells at the end of line_points.
C16_Witness ==
    /\ lvl.stage = "weld"
    /\ lvl.welds >= 1
    /\ lvl.grid_size = 10
    /\ CellSpan(LineAt(lvl.line_points, lvl.line_count - 1), 10) = 2


\* The grid has no rows or no columns, or the cell size is not positive.
BadLevelInput ==
    \/ Len(lvl.json_data) = 0
    \/ Len(lvl.json_data[1]) = 0
    \/ lvl.grid_size <= 0

\* C17: on a grid with zero rows or zero columns, or a cell size <= 0, level
\* building fails at once with an error: it goes through none of its stages
\* and returns no polygons.
C17_FailsFast ==
    (lvl.stage # "none" /\ BadLevelInput) => lvl.stage \in {"start", "panic"}


\* ------------------------------------------------------------------------
\* The debug flag: the steering system run twice on the same inputs, once
\* with GizmosVisible as chosen each frame and once with its negation.
\* ------------------------------------------------------------------------
\* Lines 187-189: the line to the player is drawn when the flag is set.
SightLineDraws(gizmos_visible_flag) == IF gizmos_visible_flag THEN 1 ELSE 0

\* get_wander_dir, lines 350-362: the three circles drawn when the flag is
\* set.
WanderCircleDraws(gizmos_visible_flag) == IF gizmos_visible_flag THEN 3 ELSE 0

\* Faulty variant of WanderIncrement: the increment inside the block of the
\* flag.
WanderIncrement_InsideBlock(gizmos_visible_flag, disp) ==
    IF gizmos_visible_flag THEN disp ELSE 0

\* get_wander_dir, lines 350-367: the random increment of *wander_angle is
\* drawn and added after the block of the flag, for either value of the flag.
WanderIncrement(gizmos_visible_flag, disp) == disp

\* The increments of one call of the system, per entity.
WanderIncrements(gizmos_visible_flag, disps) ==
    [i \in DOMAIN disps |-> WanderIncrement(gizmos_visible_flag, disps[i])]

\* The draw calls of one call of the system.
GizmoDraws(gizmos_visible_flag, entities) ==
    entities * (SightLineDraws(gizmos_visible_flag)
                + WanderCircleDraws(gizmos_visible_flag))

\* s_flee_ai_movement with the flag it reads: the state it leaves, and the
\* number of gizmo draw calls it made.
FleeSystemWithGizmos(st, sg, player, dt, disps, gizmos_visible_flag) ==
    [st |-> FleeSystem(st, sg, player, dt,
                       WanderIncrements(gizmos_visible_flag, disps)),
     draws |-> GizmoDraws(gizmos_visible_flag, Len(st.ents))]

\* The scenes of the two runs: two entities by the wall, one entity in the
\* box.
GizmoScenes == {sc \in Scenes : Len(sc.starts) = 2 \/ sc.level = BoxLevel}

\* time.delta_secs() of the two runs, in hundredths of a second.
GizmoDeltaTimes == {5}

GizmoInit ==
    /\ \E sc \in GizmoScenes, b \in StartBlends :
          /\ polygons = Oriented(sc.level, sc.starts[1])
          /\ sgrid = SpatialGrid_new(sc.level, GridSize * Unit)
          /\ ents = [i \in DOMAIN sc.starts |-> SpawnAI(sc.starts[i])]
          /\ ais = [i \in DOMAIN sc.starts |-> SpawnFleeAI(b)]
          /\ obs = [i \in DOMAIN sc.starts |-> NoObs]
          /\ hidden = [i \in DOMAIN sc.starts |-> NoHidden]
          /\ player_pos \in sc.players
          /\ twin = [ents |-> [i \in DOMAIN sc.starts |-> SpawnAI(sc.starts[i])],
                     ais |-> [i \in DOMAIN sc.starts |-> SpawnFleeAI(b)],
                     obs |-> [i \in DOMAIN sc.starts |-> NoObs],
                     cache |-> SystemCache, owner |-> 0,
                     draws |-> 0, first_draws |-> 0]
    /\ gizmos_visible = FALSE
    /\ built = TRUE
    /\ cache = SystemCache
    /\ los_owner = 0
    /\ ray = NoRay
    /\ ray_edges = <<>>
    /\ queries = 0
    /\ NoLevel
    /\ NoCall
    /\ phase = "move"
    /\ frame = 0
    /\ approach = NoApproach

\* The second run after the system returned r under its flag, the first run
\* having made first_draws draw calls.
TwinAfter(r, first_draws) ==
    [ents |-> r.st.ents, ais |-> r.st.ais, obs |-> r.st.obs,
     cache |-> r.st.cache, owner |-> r.st.owner,
     draws |-> twin.draws + r.draws,
     first_draws |-> twin.first_draws + first_draws]

\* s_handle_input may have toggled GizmosVisible before the frame's call of
\* s_flee_ai_movement; the second run has the other value of the flag and
\* the same elapsed time and random numbers.
GizmoSteer ==
    /\ phase = "steer"
    /\ \E dt \in GizmoDeltaTimes, visible \in BOOLEAN,
          disps \in {[i \in DOMAIN ents |-> disp] : disp \in WanderDisplacements} :
          /\ gizmos_visible' = visible
          /\ \E first \in {FleeSystemWithGizmos(
                              [ents |-> ents, ais |-> ais, cache |-> cache,
                               obs |-> obs, owner |-> los_owner],
                              sgrid, player_pos, dt, disps, visible)} :
                /\ Adopt(first.st)
                /\ twin' = TwinAfter(FleeSystemWithGizmos(
                                        [ents |-> twin.ents, ais |-> twin.ais,
                                         cache |-> twin.cache, obs |-> twin.obs,
                                         owner |-> twin.owner],
                                        sgrid, player_pos, dt, disps, ~visible),
                                     first.draws)
    /\ phase' = "collide"
    /\ UNCHANGED <<polygons, gridVars, frame, approach, player_pos, lvl, call>>

\* s_collision in both runs.
GizmoCollide ==
    /\ phase = "collide"
    /\ ents' = [i \in DOMAIN ents |-> CollideEntity(ents[i], polygons)]
    /\ twin' = [twin EXCEPT
                  !.ents = [i \in DOMAIN twin.ents |->
                               CollideEntity(twin.ents[i], polygons)]]
    /\ phase' = "move"
    /\ frame' = frame + 1
    /\ UNCHANGED <<polygons, gridVars, approach, aiVars, lvl, gizmos_visible, call>>

GizmoNext == PlayerPositionUpdate \/ GizmoSteer \/ GizmoCollide

SpecGizmo == GizmoInit /\ [][GizmoNext]_vars

\* The simulation state of an entity.
SimState(e, ai) ==
    [position |-> e.pos, velocity |-> e.phys.velocity,
     acceleration |-> e.phys.acceleration,
     prev_position |-> e.phys.prev_position,
     blend |-> ai.blend, wander_angle |-> ai.wander_angle,
     dir_weights |-> ai.dir_weights]

\* C18: GizmosVisible does not influence the simulation: two runs that differ
\* only in the flag have, for every entity and at every step, the same
\* position, velocity, acceleration, prev_position, blend, wander_angle and
\* dir_weights.
C18_FlagDoesNotInfluence ==
    (twin.ents # <<>>) =>
        \A i \in DOMAIN ents :
            SimState(ents[i], ais[i]) = SimState(twin.ents[i], twin.ais[i])

\* Two frames have been simulated with different numbers of draw calls in
\* the two runs, and the wander angle of an entity has changed.
C18_Witness ==
    /\ twin.ents # <<>>
    /\ frame = 2
    /\ twin.draws # twin.first_draws
    /\ \E i \in DOMAIN ais : ais[i].wander_angle # SpawnFleeAI(0).wander_angle
    /\ \E i \in DOMAIN ents : ents[i].pos # ents[i].phys.prev_position


\* ------------------------------------------------------------------------
\* point_in_polygon on its own: a closed point list with vertices on a small
\* integer lattice, the same loop started at another vertex, a query point.
\* ------------------------------------------------------------------------
MaxPip == 2

PipLattice == (0..MaxPip) \X (0..MaxPip)

\* The query points: lattice points and points outside the lattice.
PipPoints == (-1..MaxPip) \X (-1..MaxPip)

\* The closed point list of the loop through the vertices: first == last.
ClosedList(vertices) == Append(vertices, vertices[1])

\* The loop of a closed point list started k vertices later.
Rotation(polygon_lines, k) ==
    ClosedList([i \in 1..(Len(polygon_lines) - 1) |->
                   polygon_lines[((i - 1 + k) % (Len(polygon_lines) - 1)) + 1]])

\* The loops: three or four distinct lattice points.
PipLoops ==
    {<<a, b, c>> : a \in PipLattice, b \in PipLattice, c \in PipLattice}
    \cup {<<a, <<0, MaxPip>>, c, <<MaxPip, 0>>>> : a \in PipLattice, c \in PipLattice}

Distinct(s) == \A i \in 1..Len(s), j \in 1..Len(s) : i # j => s[i] # s[j]

PipInit ==
    /\ \E vertices \in PipLoops, k \in 0..3, point \in PipPoints :
          /\ Distinct(vertices)
          /\ k < Len(vertices)
          /\ call = [fn |-> "point_in_polygon", done |-> FALSE,
                     polygon_lines |-> ClosedList(vertices),
                     rotated |-> Rotation(ClosedList(vertices), k),
                     k |-> k, point |-> point,
                     inside |-> FALSE, inside_rotated |-> FALSE]
    /\ polygons = <<>>
    /\ sgrid = [cell_size |-> 1, grid |-> <<>>]
    /\ built = FALSE
    /\ ray = NoRay
    /\ ray_edges = <<>>
    /\ queries = 0
    /\ ents = <<>>
    /\ phase = "idle"
    /\ frame = 0
    /\ approach = NoApproach
    /\ NoAI
    /\ NoLevel
    /\ NoTwin

\* level.rs lines 609-627, on the list and on its rotation.
PipCall ==
    /\ call.fn = "point_in_polygon"
    /\ ~call.done
    /\ call' = [call EXCEPT
                  !.done = TRUE,
                  !.inside = point_in_polygon(call.polygon_lines, call.point),
                  !.inside_rotated = point_in_polygon(call.rotated, call.point)]
    /\ UNCHANGED callOthers

PipNext == PipCall

SpecPip == PipInit /\ [][PipNext]_vars

\* C19: point_in_polygon gives the same answer for every rotation of the
\* starting vertex of the same closed polygon's point list.
C19_RotationInvariant ==
    (call.fn = "point_in_polygon" /\ call.done) =>
        call.inside = call.inside_rotated

\* A point found inside a loop of four vertices and inside the same loop
\* started at another vertex.
C19_Witness ==
    /\ call.fn = "point_in_polygon"
    /\ call.done
    /\ call.k # 0
    /\ Len(call.polygon_lines) = 5
    /\ call.rotated # call.polygon_lines
    /\ call.inside
    /\ call.inside_rotated


\* ------------------------------------------------------------------------
\* Contact scenario: one entity that has just moved, next to a flat wall, to
\* a wall made of two collinear edges, or in the corner of two perpendicular
\* edges; then s_collision.
\* ------------------------------------------------------------------------
\* The walls, in pixels: one edge, two collinear edges that meet at the
\* origin, two perpendicular edges that meet at the origin.
TouchWalls ==
    {<<<<-WallHalfLength, 0>>, <<WallHalfLength, 0>>>>,
     <<<<-WallHalfLength, 0>>, <<0, 0>>, <<WallHalfLength, 0>>>>,
     <<<<0, WallHalfLength>>, <<0, 0>>, <<WallHalfLength, 0>>>>}

InUnits(points) == [k \in DOMAIN points |-> <<points[k][1] * Unit, points[k][2] * Unit>>]

\* Where the entity stands after its move, in units: at the joint, beside it,
\* and far along the wall; at the radius, within the touching margin, and
\* away from the wall.
TouchXs == {0, AIRadius * Unit, AIRadius * Unit + 4, 2 * AIRadius * Unit}

TouchYs == {AIRadius * Unit, AIRadius * Unit + 4, 2 * AIRadius * Unit}

\* The velocity of the move, in units per frame.
TouchVelocities == {<<0, 0>>, <<0, -30>>, <<-30, 0>>, <<-20, -30>>, <<30, 20>>}

TouchInit ==
    /\ \E wall \in TouchWalls, x \in TouchXs, y \in TouchYs,
          velocity \in TouchVelocities :
          /\ polygons = <<[points |-> InUnits(wall),
                           collision_side |->
                               side_of_line_detection(InUnits(wall)[1], InUnits(wall)[2],
                                                      <<AIRadius * Unit, AIRadius * Unit>>)]>>
          /\ ents = <<[pos |-> <<x, y>>,
                       phys |-> [prev_position |-> VSub(<<x, y>>, velocity),
                                 velocity |-> velocity,
                                 acceleration |-> <<0, 0>>,
                                 radius |-> AIRadius * Unit,
                                 normal |-> <<0, 0>>]]>>
    /\ approach = NoApproach
    /\ phase = "collide"
    /\ frame = 0
    /\ sgrid = [cell_size |-> 1, grid |-> <<>>]
    /\ built = FALSE
    /\ ray = NoRay
    /\ ray_edges = <<>>
    /\ queries = 0
    /\ NoLevel
    /\ NoTwin
    /\ NoCall
    /\ NoAI

TouchNext == s_collision

SpecTouch == TouchInit /\ [][TouchNext]_vars

\* Edge k of the polygon is eligible for the entity and within touching
\* distance (radius + 0.5) of it.
TouchesEdge(e, polygon, k) ==
    /\ side_of_line_detection(polygon.points[k], polygon.points[k + 1],
                              e.phys.prev_position) = polygon.collision_side
    /\ find_projection(polygon.points[k], polygon.points[k + 1], e.pos,
                       e.phys.radius).dist_sq
          <= (e.phys.radius + TouchMargin) * (e.phys.radius + TouchMargin)

\* The number of eligible edges within touching distance of the entity.
TouchingEdges(e, polys) ==
    {<<p, k>> \in (1..Len(polys)) \X (1..2) :
        k < Len(polys[p].points) /\ TouchesEdge(e, polys[p], k)}

\* The rounding of the fixed-point velocity and unit normal allowed in a dot
\* product: a fifth of a pixel per frame.
SlideTolerance == 2 * DirScale

\* C20: after s_collision the velocity has no component along physics.normal
\* whenever an eligible edge is within touching distance, also with two or
\* more contributing edges; with no edge within touching distance the
\* velocity is unchanged.
C20_VelocityOffNormal ==
    [][phase = "collide" =>
          \A i \in DOMAIN ents :
              IF TouchingEdges(ents[i], polygons) # {}
              THEN Abs(Dot(ents'[i].phys.velocity, ents'[i].phys.normal))
                      <= SlideTolerance
              ELSE ents'[i].phys.velocity = ents[i].phys.velocity]_vars


\* ------------------------------------------------------------------------
\* The tunneling guard of s_collision.
\* ------------------------------------------------------------------------
\* Edge k of the polygon is eligible for the entity and within its radius.
CollidesWithEdge(e, polygon, k) ==
    /\ side_of_line_detection(polygon.points[k], polygon.points[k + 1],
                              e.phys.prev_position) = polygon.collision_side
    /\ find_projection(polygon.points[k], polygon.points[k + 1], e.pos,
                       e.phys.radius).dist_sq <= e.phys.radius * e.phys.radius

\* The number of edges of the polygon the long ray from the entity crosses.
RayCrossings(e, polygon) ==
    Cardinality({k \in 1..(Len(polygon.points) - 1) :
                    line_intersect(polygon.points[k], polygon.points[k + 1],
                                   e.pos, RayEnd(e.pos))})

\* The tunneling guard fires for the entity at the polygon.
GuardFires(e, polygon) ==
    /\ \E k \in 1..(Len(polygon.points) - 1) : CollidesWithEdge(e, polygon, k)
    /\ RayCrossings(e, polygon) % 2 = 1

\* C21: when the tunneling guard fires for an entity in s_collision, the
\* entity's position at the end of s_collision is physics.prev_position (no
\* positional correction from that polygon is applied).
C21_GuardPutsBack ==
    [][phase = "collide" =>
          \A i \in DOMAIN ents :
              (\E p \in DOMAIN polygons : GuardFires(ents[i], polygons[p]))
                  => ents'[i].pos = ents[i].phys.prev_position]_vars


\* ------------------------------------------------------------------------
\* Two-polygon scenario: one entity that has just moved, near a vertical
\* wall and a horizontal wall that belong to different polygons, the
\* polygons in either order; then s_collision.
\* ------------------------------------------------------------------------
\* The vertical wall on x = 0 and the horizontal wall on y = -82 pixels / 10,
\* in units.
UprightWall == <<<<0, WallHalfLength * Unit>>, <<0, -WallHalfLength * Unit>>>>

LowWall ==
    <<<<-WallHalfLength * Unit, -(AIRadius * Unit + 2)>>,
      <<WallHalfLength * Unit, -(AIRadius * Unit + 2)>>>>

\* The polygon of the wall, colliding on the side of the point.
WallPolygon(points, inside) ==
    [points |-> points,
     collision_side |-> side_of_line_detection(points[1], points[2], inside)]

\* Where the entity stood before its move, in units, and the moves.
OrderStarts == {<<-(AIRadius * Unit), 0>>, <<-(AIRadius * Unit) - 20, 0>>,
                <<-(AIRadius * Unit), 30>>}

OrderMoves == {<<0, 0>>, <<5, -3>>, <<5, 0>>, <<0, -3>>, <<-5, -3>>, <<20, -6>>}

OrderRadii == {AIRadius * Unit, AIRadius * Unit + 40}

Reversed(s) == [k \in 1..Len(s) |-> s[Len(s) + 1 - k]]

OrderInit ==
    /\ \E start \in OrderStarts, move \in OrderMoves, radius \in OrderRadii,
          swap \in BOOLEAN :
          /\ polygons =
                IF swap
                THEN <<WallPolygon(LowWall, start), WallPolygon(UprightWall, start)>>
                ELSE <<WallPolygon(UprightWall, start), WallPolygon(LowWall, start)>>
          /\ ents = <<[pos |-> VAdd(start, move),
                       phys |-> [prev_position |-> start,
                                 velocity |-> move,
                                 acceleration |-> <<0, 0>>,
                                 radius |-> radius,
                                 normal |-> <<0, 0>>]]>>
    /\ approach = NoApproach
    /\ phase = "collide"
    /\ frame = 0
    /\ sgrid = [cell_size |-> 1, grid |-> <<>>]
    /\ built = FALSE
    /\ ray = NoRay
    /\ ray_edges = <<>>
    /\ queries = 0
    /\ NoLevel
    /\ NoTwin
    /\ NoCall
    /\ NoAI

OrderNext == s_collision

SpecOrder == OrderInit /\ [][OrderNext]_vars

\* The contributions: the corrections of the eligible edges within the
\* radius of the entity where it stands.
Contributions(e, polys) ==
    {PushOut(e.pos, find_projection(polys[p].points[1], polys[p].points[2],
                                    e.pos, e.phys.radius).projection,
             e.phys.radius,
             find_projection(polys[p].points[1], polys[p].points[2],
                             e.pos, e.phys.radius).dist_sq) :
        p \in {q \in DOMAIN polys : CollidesWithEdge(e, polys[q], 1)}}

\* No two contributions have the same non-zero magnitude on an axis.
NoTies(e, polys) ==
    \A c1 \in Contributions(e, polys), c2 \in Contributions(e, polys) :
        \A axis \in {1, 2} :
            (c1 # c2 /\ c1[axis] # 0) => Abs(c1[axis]) # Abs(c2[axis])

\* The contribution of largest magnitude on the axis, 0 without any.
LargestOn(axis, contributions) ==
    IF contributions = {} THEN 0
    ELSE (CHOOSE c \in contributions :
             \A other \in contributions : Abs(c[axis]) >= Abs(other[axis]))[axis]

\* The correction s_collision applies to the entity: the position it leaves
\* minus the position the polygon loop left (the entity's own, or
\* prev_position after the tunneling guard).
AppliedCorrection(e, polys) ==
    PolygonLoop([pos |-> e.pos, adjustment |-> <<0, 0>>, new_normal |-> <<0, 0>>],
                polys, e.phys).adjustment

\* C22: for a fixed entity state the positional correction s_collision
\* applies is the same for every ordering of level.polygons when no two
\* contributions tie: per axis the contribution of largest absolute value
\* among all colliding eligible edges of all polygons.
C22_OrderIndependent ==
    [][phase = "collide" =>
          \A i \in DOMAIN ents :
              NoTies(ents[i], polygons) =>
                  /\ ents'[i].pos = CollideEntity(ents[i], Reversed(polygons)).pos
                  /\ AppliedCorrection(ents[i], polygons)
                        = <<LargestOn(1, Contributions(ents[i], polygons)),
                            LargestOn(2, Contributions(ents[i], polygons))>>]_vars


\* ------------------------------------------------------------------------
\* find_projection on its own: an axis-aligned segment, a point and a radius,
\* in units (exact in the fixed-point arithmetic), then the call.
\* ------------------------------------------------------------------------
ProjSegments ==
    {<<<<0, 0>>, <<100, 0>>>>, <<<<100, 0>>, <<0, 0>>>>, <<<<0, 0>>, <<0, 100>>>>}

ProjAlong == {-150, -75, -20, 0, 50, 100, 130, 175, 250}

ProjAcross == {0, 30, 75}

ProjRadii == {AIRadius * Unit, 2 * AIRadius * Unit}

ProjInit ==
    /\ \E segment \in ProjSegments, along \in ProjAlong, across \in ProjAcross,
          radius \in ProjRadii :
          call = [fn |-> "find_projection", done |-> FALSE,
                  start |-> segment[1], end |-> segment[2],
                  point |-> IF segment[1][2] = segment[2][2]
                            THEN <<along, across>> ELSE <<across, along>>,
                  radius |-> radius,
                  dist_sq |-> 0, projection |-> <<0, 0>>]
    /\ polygons = <<>>
    /\ sgrid = [cell_size |-> 1, grid |-> <<>>]
    /\ built = FALSE
    /\ ray = NoRay
    /\ ray_edges = <<>>
    /\ queries = 0
    /\ ents = <<>>
    /\ phase = "idle"
    /\ frame = 0
    /\ approach = NoApproach
    /\ NoAI
    /\ NoLevel
    /\ NoTwin

\* collisions.rs lines 99-121.
ProjCall ==
    /\ call.fn = "find_projection"
    /\ ~call.done
    /\ \E fp \in {find_projection(call.start, call.end, call.point, call.radius)} :
          call' = [call EXCEPT !.done = TRUE,
                               !.dist_sq = fp.dist_sq,
                               !.projection = fp.projection]
    /\ UNCHANGED callOthers

ProjNext == ProjCall

SpecProj == ProjInit /\ [][ProjNext]_vars

\* x held between a and b.
Clamped(x, a, b) == Max(Min(a, b), Min(x, Max(a, b)))

\* The point of the axis-aligned segment nearest to the point.
NearestOnSegment(start, end, point) ==
    <<Clamped(point[1], start[1], end[1]), Clamped(point[2], start[2], end[2])>>

\* C23: find_projection returns the point of the finite segment nearest to
\* the point and the squared distance from the point to it, so a centre
\* within radius of a segment endpoint is reported as colliding.
C23_NearestPoint ==
    (call.fn = "find_projection" /\ call.done) =>
        /\ call.projection = NearestOnSegment(call.start, call.end, call.point)
        /\ call.dist_sq = LengthSquared(VSub(call.point, call.projection))
        /\ (LengthSquared(VSub(call.point, call.start)) <= call.radius * call.radius
               => call.dist_sq <= call.radius * call.radius)


\* ------------------------------------------------------------------------
\* Claims about the blend of a single frame.
\* ------------------------------------------------------------------------
\* Entity i was last updated in a frame whose line-of-sight result was
\* not visible.
HiddenAtUpdate(i) == obs[i].updated /\ ~obs[i].can_see_player

\* C24: in a frame in which the target is not visible the new blend is
\* min(old + min(elapsed, 0.1), 1.0); it is not below the old blend and
\* exceeds it by at most 0.1.
C24_HiddenStep ==
    \A i \in DOMAIN obs :
        HiddenAtUpdate(i) =>
            /\ ais[i].blend =
                  (IF obs[i].blend_before + (IF obs[i].dt < 10 THEN obs[i].dt ELSE 10) < 100
                   THEN obs[i].blend_before + (IF obs[i].dt < 10 THEN obs[i].dt ELSE 10)
                   ELSE 100)
            /\ ais[i].blend >= obs[i].blend_before
            /\ ais[i].blend - obs[i].blend_before <= 10

\* Witness of C24: a frame of half a second with the player not visible
\* raised a blend of 0.37 by exactly 0.1.
C24_Witness ==
    \E i \in DOMAIN obs :
        /\ HiddenAtUpdate(i)
        /\ obs[i].dt = 50
        /\ obs[i].blend_before = 37
        /\ ais[i].blend = 47


\* The capped step of entity i's last update: min(elapsed, 0.1).
CappedStep(i) == IF obs[i].dt < 10 THEN obs[i].dt ELSE 10

\* The change of entity i's blend in its last update.
BlendJump(i) == ais[i].blend - obs[i].blend_before

\* C25 as stated: in every frame, visible or not, the new blend comes from
\* the previous blend: it never jumps by more than the capped per-frame
\* step, and below the clamp it is the previous blend plus that step, so
\* that different previous blends give different new blends.
C25_LowPass ==
    \A i \in DOMAIN obs :
        obs[i].updated =>
            /\ BlendJump(i) <= CappedStep(i)
            /\ -BlendJump(i) <= CappedStep(i)
            /\ (obs[i].blend_before + CappedStep(i) <= 100
                   => BlendJump(i) = CappedStep(i))

\* C25 amended: the same of every frame in which the target is not visible.
C25_HiddenLowPass ==
    \A i \in DOMAIN obs :
        HiddenAtUpdate(i) =>
            /\ BlendJump(i) <= CappedStep(i)
            /\ -BlendJump(i) <= CappedStep(i)
            /\ (obs[i].blend_before + CappedStep(i) <= 100
                   => BlendJump(i) = CappedStep(i))

\* Witness of C25: a not visible frame of 30 ms took a blend of 0.37 to
\* 0.40, where a blend of 0.0 would have gone to 0.03.
C25_Witness ==
    \E i \in DOMAIN obs :
        /\ HiddenAtUpdate(i)
        /\ obs[i].dt = 3
        /\ obs[i].blend_before = 37
        /\ ais[i].blend = 40

\* The player was farther than AI_MAX_DETECTION_DISTANCE from entity i at
\* its last update.
FarAtUpdate(i) ==
    /\ obs[i].updated
    /\ DistSq(obs[i].player, obs[i].ai_pos)
          > (AI_MAX_DETECTION_DISTANCE * Unit) * (AI_MAX_DETECTION_DISTANCE * Unit)

\* C26: whenever the player is farther than AI_MAX_DETECTION_DISTANCE at a
\* frame update, the entity's blend after the update is 1.0, with or
\* without line of sight.
C26_FarMeansWander ==
    \A i \in DOMAIN obs : FarAtUpdate(i) => ais[i].blend = 100


GridCols == Len(lvl.json_data[1])

GridRows == Len(lvl.json_data)

\* Twice the point is within the rectangle of the grid centred at the origin.
InCentredRectangle(point) ==
    /\ Abs(2 * point[1]) <= GridCols * lvl.grid_size
    /\ Abs(2 * point[2]) <= GridRows * lvl.grid_size

\* C27: the transform step takes every edge endpoint (x, y) to
\* (x - cols * cellSize / 2, rows * cellSize / 2 - y); afterwards every
\* endpoint lies in the grid's rectangle centred at the origin, and no
\* later step changes an endpoint's coordinates.
C27_CentredTransform ==
    /\ [][lvl.stage = "transform" =>
             /\ Len(lvl'.line_points) = Len(lvl.line_points)
             /\ \A k \in DOMAIN lvl.line_points :
                   /\ 2 * lvl'.line_points[k][1]
                         = 2 * lvl.line_points[k][1] - GridCols * lvl.grid_size
                   /\ 2 * lvl'.line_points[k][2]
                         = GridRows * lvl.grid_size - 2 * lvl.line_points[k][2]]_vars
    /\ [][lvl.stage = "assemble" =>
             /\ Range(lvl'.line_points) \subseteq Range(lvl.line_points)
             /\ \A p \in DOMAIN lvl'.polygons :
                   p \notin DOMAIN lvl.polygons =>
                       Range(lvl'.polygons[p].points) \subseteq Range(lvl.line_points)]_vars
    /\ [](lvl.stage \in {"assemble", "done"} /\ lvl.grid_size > 0 =>
             /\ \A k \in DOMAIN lvl.line_points : InCentredRectangle(lvl.line_points[k])
             /\ \A p \in DOMAIN lvl.polygons :
                   \A k \in DOMAIN lvl.polygons[p].points :
                       InCentredRectangle(lvl.polygons[p].points[k]))

\* Witness of C27: a grid of two rows and one column has been transformed,
\* and the corner emitted at (0, 0), in row 0, is an endpoint at the top
\* left of the centred rectangle.
C27_Witness ==
    /\ lvl.stage = "assemble"
    /\ lvl.grid_size = 10
    /\ GridRows = 2
    /\ GridCols = 1
    /\ \E k \in DOMAIN lvl.line_points : lvl.line_points[k] = <<-5, 10>>
    /\ \E k \in DOMAIN lvl.line_points : lvl.line_points[k] = <<5, -10>>


\* Consecutive points of the list are different points.
NoZeroLengthEdge(points) ==
    \A k \in 2..Len(points) : points[k - 1] # points[k]

\* C28: for a cell size above 0 no edge has length zero: not among the
\* emitted edges, not after any weld step, not after the transform, and
\* not in any polygon assembled from them.
C28_NoZeroLengthEdges ==
    lvl.stage \in {"weld", "transform", "assemble", "done"} /\ lvl.grid_size > 0 =>
        /\ 2 * lvl.line_count = Len(lvl.line_points)
        /\ \A k \in 1..lvl.line_count :
              LineAt(lvl.line_points, k - 1)[1] # LineAt(lvl.line_points, k - 1)[2]
        /\ \A p \in DOMAIN lvl.polygons :
              /\ Len(lvl.polygons[p].points) >= 2
              /\ NoZeroLengthEdge(lvl.polygons[p].points)


\* Witness of C28: the level of a grid with a cell size of 10 has been
\* returned after at least two weld steps, with a polygon of five points.
C28_Witness ==
    /\ LevelDone
    /\ lvl.grid_size = 10
    /\ lvl.welds >= 2
    /\ \E p \in DOMAIN lvl.polygons :
          /\ Len(lvl.polygons[p].points) = 5
          /\ NoZeroLengthEdge(lvl.polygons[p].points)


\* ------------------------------------------------------------------------
\* Claims about the polygon assembly.
\* ------------------------------------------------------------------------
\* The edges of a point list, each as the set of its two ends.
PairsOf(points) == [k \in 1..(Len(points) - 1) |-> {points[k], points[k + 1]}]

\* The lines of line_points, each as the set of its two ends.
EndsOfLines(line_points, line_count) ==
    [k \in 1..line_count |-> Ends(LineAt(line_points, k - 1))]

\* How often x occurs in the sequence.
Occurrences(seq, x) == Cardinality({k \in DOMAIN seq : seq[k] = x})

\* The edges of the first p polygons taken together.
RECURSIVE EdgesInPolygons(_, _)
EdgesInPolygons(polys, p) ==
    IF p = 0 THEN 0
    ELSE EdgesInPolygons(polys, p - 1) + Len(polys[p].points) - 1

\* An assembly iteration: the polygon it pushes is made of lines it took
\* from line_points, each taken once, and the other lines stay.
AssemblyStepSound(before, after, points) ==
    /\ Len(points) >= 2
    /\ Len(before) = Len(after) + Len(points) - 1
    /\ \A k \in DOMAIN PairsOf(points) :
          Occurrences(before, PairsOf(points)[k])
              = Occurrences(after, PairsOf(points)[k])
                + Occurrences(PairsOf(points), PairsOf(points)[k])
    /\ \A k \in DOMAIN after :
          Occurrences(before, after[k]) >= Occurrences(after, after[k])

\* C30: the assembly takes every welded edge exactly once and stops: each
\* iteration moves at least one line into the polygon it pushes, every
\* consecutive point pair of a polygon is one of the lines, closed loop or
\* not, and at the return no line is left and the polygons' edges are as
\* many as the lines after the weld pass.
C30_EveryEdgeOnce ==
    /\ [][(lvl.stage = "assemble" /\ lvl.line_count > 0) =>
             /\ Len(lvl'.polygons) = Len(lvl.polygons) + 1
             /\ lvl'.line_count < lvl.line_count
             /\ AssemblyStepSound(EndsOfLines(lvl.line_points, lvl.line_count),
                                  EndsOfLines(lvl'.line_points, lvl'.line_count),
                                  lvl'.polygons[Len(lvl'.polygons)].points)]_vars
    /\ [](lvl.stage \in {"assemble", "done"} =>
             /\ Len(lvl.line_points) = 2 * lvl.line_count
             /\ EdgesInPolygons(lvl.polygons, Len(lvl.polygons)) + lvl.line_count
                   = lvl.emitted - lvl.welds)
    /\ [](lvl.stage = "done" => lvl.line_count = 0 /\ lvl.line_points = <<>>)

\* Witness of C30: a level has been returned with a polygon that is not
\* closed and one that is, made of all the lines the weld pass left.
C30_Witness ==
    /\ lvl.stage = "done"
    /\ lvl.welds >= 1
    /\ \E p, q \in DOMAIN lvl.polygons :
          /\ ~IsClosed(lvl.polygons[p])
          /\ IsClosed(lvl.polygons[q])
          /\ Len(lvl.polygons[q].points) >= 4
    /\ EdgesInPolygons(lvl.polygons, Len(lvl.polygons)) = lvl.emitted - lvl.welds

=============================================================================
